---- MODULE Spec2Model ----
(***************************************************************************)
(* Model of the file-bundling engine of permaway: lib/zip-processing.ts    *)
(* (archive reader, entry selection, reference inlining, optimizer).       *)
(* Text is modelled as strings, character by character; the regular        *)
(* expressions of the source are modelled by matchers that compute the     *)
(* same matches on every input.                                            *)
(***************************************************************************)
EXTENDS Naturals, Sequences, FiniteSets, TLC

(***************************************************************************)
(* String primitives (JavaScript String methods).                          *)
(***************************************************************************)
Min(S) == CHOOSE x \in S : \A y \in S : x <= y

Max(S) == CHOOSE x \in S : \A y \in S : x >= y

Ch(s, i) == SubSeq(s, i, i)

UpperChars == "ABCDEFGHIJKLMNOPQRSTUVWXYZ"

LowerChars == "abcdefghijklmnopqrstuvwxyz"

\* one character, lower-cased (String.prototype.toLowerCase, the i flag)
LowerCh(c) ==
  IF \E k \in 1..Len(UpperChars) : Ch(UpperChars, k) = c
  THEN Ch(LowerChars, CHOOSE k \in 1..Len(UpperChars) : Ch(UpperChars, k) = c)
  ELSE c

\* the literal p occurs in s at position i
MatchAt(s, i, p) == i >= 1 /\ i + Len(p) - 1 <= Len(s) /\ SubSeq(s, i, i + Len(p) - 1) = p

\* the lower-case literal p occurs in s at position i, ignoring case
MatchCI(s, i, p) ==
  /\ i >= 1
  /\ i + Len(p) - 1 <= Len(s)
  /\ \A k \in 1..Len(p) : LowerCh(Ch(s, i + k - 1)) = Ch(p, k)

\* String.prototype.indexOf(p, from), 1-based; 0 when p does not occur
IndexOf(s, p, from) ==
  LET I == {i \in from..(Len(s) - Len(p) + 1) : MatchAt(s, i, p)}
  IN IF I = {} THEN 0 ELSE Min(I)

IndexOfCI(s, p, from) ==
  LET I == {i \in from..(Len(s) - Len(p) + 1) : MatchCI(s, i, p)}
  IN IF I = {} THEN 0 ELSE Min(I)

\* String.prototype.includes
Includes(s, p) == IndexOf(s, p, 1) # 0

\* String.prototype.endsWith
EndsWith(s, p) == Len(p) <= Len(s) /\ SubSeq(s, Len(s) - Len(p) + 1, Len(s)) = p

\* String.prototype.startsWith
StartsWith(s, p) == MatchAt(s, 1, p)

\* \s of a regular expression, over the characters a string of this model
\* can hold (no vertical tab, no non-ASCII space)
IsSpace(c) == c \in {" ", "\n", "\t", "\r", "\f"}

\* what . does not match and $ with the m flag stops at (the ASCII line
\* terminators)
IsLineTerminator(c) == c \in {"\n", "\r"}

IsQuote(c) == c \in {"\"", "'"}

\* least position >= from whose character is a quote; 0 if none
NextQuote(s, from) ==
  LET I == {i \in from..Len(s) : IsQuote(Ch(s, i))}
  IN IF I = {} THEN 0 ELSE Min(I)

\* String.prototype.trim
Trim(s) ==
  LET I == {i \in 1..Len(s) : ~IsSpace(Ch(s, i))}
  IN IF I = {} THEN "" ELSE SubSeq(s, Min(I), Max(I))

\* The replacement text of String.prototype.replace(pattern, rep): $$ is a
\* dollar sign, $& the match, $' the text after the match.  (The fourth
\* pattern, the text before the match, is a dollar sign and a grave accent;
\* the texts of this model hold no grave accent.)
RECURSIVE ExpandReplacement(_, _, _, _, _)
ExpandReplacement(rep, from, s, ms, me) ==
  LET d == IndexOf(rep, "$", from)
      nx == Ch(rep, d + 1)
  IN IF d = 0 \/ d = Len(rep) THEN SubSeq(rep, from, Len(rep))
     ELSE SubSeq(rep, from, d - 1) \o
          (IF nx = "$" THEN "$" \o ExpandReplacement(rep, d + 2, s, ms, me)
           ELSE IF nx = "&" THEN SubSeq(s, ms, me) \o ExpandReplacement(rep, d + 2, s, ms, me)
           ELSE IF nx = "'" THEN SubSeq(s, me + 1, Len(s)) \o ExpandReplacement(rep, d + 2, s, ms, me)
           ELSE "$" \o ExpandReplacement(rep, d + 1, s, ms, me))

\* String.prototype.replace(pat, rep) with a string pattern: the first
\* occurrence only
ReplaceFirst(s, pat, rep) ==
  LET i == IndexOf(s, pat, 1)
      e == i + Len(pat) - 1
  IN IF i = 0 THEN s
     ELSE SubSeq(s, 1, i - 1) \o ExpandReplacement(rep, 1, s, i, e) \o SubSeq(s, e + 1, Len(s))

(***************************************************************************)
(* Global regular-expression machinery.  ends[i] is the last position of   *)
(* the match that starts at i, or 0 when the expression does not match     *)
(* there; a global scan takes the leftmost match and resumes after it.     *)
(***************************************************************************)
RECURSIVE GlobalMatches(_, _)
GlobalMatches(ends, from) ==
  LET I == {i \in DOMAIN ends : i >= from /\ ends[i] # 0}
  IN IF I = {} THEN <<>>
     ELSE LET i == Min(I) IN <<[s |-> i, e |-> ends[i]]>> \o GlobalMatches(ends, ends[i] + 1)

\* String.prototype.replace(/re/g, rep) for a rep without $ patterns
RECURSIVE Splice(_, _, _, _, _)
Splice(s, ms, k, from, rep) ==
  IF k > Len(ms) THEN SubSeq(s, from, Len(s))
  ELSE SubSeq(s, from, ms[k].s - 1) \o rep \o Splice(s, ms, k + 1, ms[k].e + 1, rep)

ReplaceAll(s, ends, rep) == Splice(s, GlobalMatches(ends, 1), 1, 1, rep)

(***************************************************************************)
(* optimizeHtml (zip-processing.ts 263-272): five textual passes in a      *)
(* fixed order, then trim.                                                 *)
(***************************************************************************)
\* last position of the run of \s that starts at i
SpaceRunEnd(s, i) ==
  Min({j \in i..(Len(s) + 1) : j = Len(s) + 1 \/ ~IsSpace(Ch(s, j))}) - 1

\* /<!--[\s\S]*?-->/g
HtmlCommentEnds(s) ==
  [i \in 1..Len(s) |->
    IF MatchAt(s, i, "<!--")
    THEN LET k == IndexOf(s, "-->", i + 4) IN IF k = 0 THEN 0 ELSE k + 2
    ELSE 0]

\* /\/\*[\s\S]*?\*\//g
CssCommentEnds(s) ==
  [i \in 1..Len(s) |->
    IF MatchAt(s, i, "/*")
    THEN LET k == IndexOf(s, "*/", i + 2) IN IF k = 0 THEN 0 ELSE k + 1
    ELSE 0]

\* /\/\/.*$/gm : from // to the end of the line
LineCommentEnds(s) ==
  [i \in 1..Len(s) |->
    IF MatchAt(s, i, "//")
    THEN LET T == {j \in (i + 2)..Len(s) : IsLineTerminator(Ch(s, j))}
         IN IF T = {} THEN Len(s) ELSE Min(T) - 1
    ELSE 0]

\* /\s{2,}/g
SpaceRunEnds(s) ==
  [i \in 1..Len(s) |->
    IF IsSpace(Ch(s, i)) /\ i < Len(s) /\ IsSpace(Ch(s, i + 1))
    THEN SpaceRunEnd(s, i)
    ELSE 0]

\* />\s+</g
TagGapEnds(s) ==
  [i \in 1..Len(s) |->
    IF Ch(s, i) = ">" /\ i < Len(s) /\ IsSpace(Ch(s, i + 1))
    THEN LET r == SpaceRunEnd(s, i + 1) IN IF r < Len(s) /\ Ch(s, r + 1) = "<" THEN r + 1 ELSE 0
    ELSE 0]

RemoveHtmlComments(s) == ReplaceAll(s, HtmlCommentEnds(s), "")

RemoveCssComments(s) == ReplaceAll(s, CssCommentEnds(s), "")

RemoveLineComments(s) == ReplaceAll(s, LineCommentEnds(s), "")

\* CollapseSpaces as it would be if a run became a line break and an indent
CollapseSpacesIndented(s) == ReplaceAll(s, SpaceRunEnds(s), "\n  ")

CollapseSpaces(s) == ReplaceAll(s, SpaceRunEnds(s), " ")

CloseTagGaps(s) == ReplaceAll(s, TagGapEnds(s), "><")

optimizeHtml(html) ==
  Trim(CloseTagGaps(CollapseSpaces(RemoveLineComments(RemoveCssComments(RemoveHtmlComments(html))))))

\* optimizeHtml of lib/process-zip.ts (141-149): the same five passes, no trim
optimizeHtmlSimple(html) ==
  CloseTagGaps(CollapseSpaces(RemoveLineComments(RemoveCssComments(RemoveHtmlComments(html)))))

(***************************************************************************)
(* lib/html-processor.ts: minifyHtml (2-9), processHtml (11-17) and        *)
(* processMhtml (19-27).                                                   *)
(***************************************************************************)
\* /\s+/g
AnySpaceRunEnds(s) ==
  [i \in 1..Len(s) |-> IF IsSpace(Ch(s, i)) THEN SpaceRunEnd(s, i) ELSE 0]

\* /\s*\/>/g
SelfCloseEnds(s) ==
  [i \in 1..Len(s) |->
    IF IsSpace(Ch(s, i))
    THEN LET r == SpaceRunEnd(s, i) IN IF MatchAt(s, r + 1, "/>") THEN r + 2 ELSE 0
    ELSE IF MatchAt(s, i, "/>") THEN i + 1 ELSE 0]

\* /"/g
DoubleQuoteEnds(s) == [i \in 1..Len(s) |-> IF Ch(s, i) = "\"" THEN i ELSE 0]

minifyHtml(html) ==
  LET uncommented == RemoveHtmlComments(html)
      collapsed == ReplaceAll(uncommented, AnySpaceRunEnds(uncommented), " ")
      closed == CloseTagGaps(collapsed)
  IN Trim(ReplaceAll(closed, SelfCloseEnds(closed), "/>"))

processHtml(html) ==
  LET minified == minifyHtml(html)
  IN ReplaceAll(minified, DoubleQuoteEnds(minified), "'")

\* /<html[^>]*>[\s\S]*<\/html>/i : the match as [s, e], e = 0 when there is
\* none.  The tag runs to the first > after <html, the rest to the last
\* </html> of the text.
htmlMatch(mhtmlContent) ==
  LET closing == {j \in 1..Len(mhtmlContent) : MatchCI(mhtmlContent, j, "</html>")}
      opening ==
        {i \in 1..Len(mhtmlContent) :
           /\ MatchCI(mhtmlContent, i, "<html")
           /\ IndexOf(mhtmlContent, ">", i + 5) # 0
           /\ \E j \in closing : j > IndexOf(mhtmlContent, ">", i + 5)}
  IN IF opening = {} THEN [s |-> 0, e |-> 0] ELSE [s |-> Min(opening), e |-> Max(closing) + 6]

NoHtmlContent == "No HTML content found in MHTML file"

\* processMhtml: the document, or the error it throws
processMhtml(mhtmlContent) ==
  LET m == htmlMatch(mhtmlContent)
  IN IF m.e = 0 THEN [ok |-> FALSE, thrown |-> NoHtmlContent]
     ELSE [ok |-> TRUE, html |-> processHtml(SubSeq(mhtmlContent, m.s, m.e))]

(***************************************************************************)
(* The bundle: Record<string, string>, an object whose keys keep their     *)
(* insertion order.  A sequence of [path, content] with unique paths.      *)
(***************************************************************************)
Keys(files) == [i \in 1..Len(files) |-> files[i].path]

HasKey(files, p) == \E i \in 1..Len(files) : files[i].path = p

\* files[p]
Get(files, p) == files[CHOOSE i \in 1..Len(files) : files[i].path = p].content

\* files[p] = c
Put(files, p, c) ==
  IF HasKey(files, p)
  THEN [i \in 1..Len(files) |-> IF files[i].path = p THEN [path |-> p, content |-> c] ELSE files[i]]
  ELSE Append(files, [path |-> p, content |-> c])

\* undefined, the result of a find that found nothing (tested only for truth)
Undefined == ""

\* Array.prototype.find over a sequence of strings, with the set of the
\* indices whose element passes the test
FindFirst(keys, passing) == IF passing = {} THEN Undefined ELSE keys[Min(passing)]

(***************************************************************************)
(* Reference resolution (zip-processing.ts 161-168 and 196-203).           *)
(***************************************************************************)
\* path.replace(/^[^/]*\//, "")
RemoveFirstDirectory(path) ==
  LET k == IndexOf(path, "/", 1) IN IF k = 0 THEN path ELSE SubSeq(path, k + 1, Len(path))

Rule1(path, ref) == RemoveFirstDirectory(path) = ref

Rule2(path, ref) == EndsWith(path, ref)

Rule3(path, ref) == Includes(path, ReplaceFirst(ref, "./", ""))

\* Rule 4 as it would be if the directory part of the reference were dropped
\* (ref.replace(/^.*\//, "")) instead of its first "/"
Rule4Basename(path, ref) ==
  LET I == {i \in 1..Len(ref) : Ch(ref, i) = "/"}
  IN Includes(path, IF I = {} THEN ref ELSE SubSeq(ref, Max(I) + 1, Len(ref)))

Rule4(path, ref) == Includes(path, ReplaceFirst(ref, "/", ""))

ResolveMatch(path, ref) ==
  Rule1(path, ref) \/ Rule2(path, ref) \/ Rule3(path, ref) \/ Rule4(path, ref)

\* Object.keys(files).find(...)
findFile(keys, ref) == FindFirst(keys, {i \in 1..Len(keys) : ResolveMatch(keys[i], ref)})

(***************************************************************************)
(* The tag expressions of convertToSingleHtml and of the two inliners.     *)
(***************************************************************************)
\* first position >= from holding ">", or Len(s) + 1: where a [^>]* that
\* starts at from has to stop
RunEnd(s, from) == LET g == IndexOf(s, ">", from) IN IF g = 0 THEN Len(s) + 1 ELSE g

\* htmlContent.match(/<name[^>]*>([\s\S]*?)<\/name>/i): the leftmost match,
\* its group the text up to the first closing tag
TagPairMatch(s, name) ==
  LET open == "<" \o name
      close == "</" \o name \o ">"
      Gt(i) == IndexOf(s, ">", i + Len(open))
      I == {i \in 1..Len(s) :
              MatchCI(s, i, open) /\ Gt(i) # 0 /\ IndexOfCI(s, close, Gt(i) + 1) # 0}
  IN IF I = {} THEN [found |-> FALSE]
     ELSE LET i == Min(I)
              k == IndexOfCI(s, close, Gt(i) + 1)
          IN [found |-> TRUE, s |-> i, e |-> k + Len(close) - 1,
              group |-> SubSeq(s, Gt(i) + 1, k - 1)]

\* /<\/?name[^>]*>/gi
StripTagEnds(s, name) ==
  [i \in 1..Len(s) |->
    IF MatchCI(s, i, "</" \o name) THEN IndexOf(s, ">", i + Len(name) + 2)
    ELSE IF MatchCI(s, i, "<" \o name) THEN IndexOf(s, ">", i + Len(name) + 1)
    ELSE 0]

StripTag(s, name) == ReplaceAll(s, StripTagEnds(s, name), "")

\* .replace(/<\/?html[^>]*>/gi, "").replace(/<\/?head[^>]*>/gi, "")
\* .replace(/<\/?body[^>]*>/gi, "")
StripDocumentTags(s) == StripTag(StripTag(StripTag(s, "html"), "head"), "body")

\* rel=["']stylesheet["'] at position r
RelAt(s, r) ==
  MatchCI(s, r, "rel=") /\ IsQuote(Ch(s, r + 4)) /\ MatchCI(s, r + 5, "stylesheet")
    /\ IsQuote(Ch(s, r + 15))

\* attr=["']([^"']+)["'][^>]*> at position h: the closing quote is the next
\* quote, the value is not empty, and a ">" follows
AttrAt(s, h, attr) ==
  /\ MatchCI(s, h, attr)
  /\ IsQuote(Ch(s, h + Len(attr)))
  /\ NextQuote(s, h + Len(attr) + 1) > h + Len(attr) + 1
  /\ IndexOf(s, ">", NextQuote(s, h + Len(attr) + 1) + 1) # 0

AttrValue(s, h, attr) == SubSeq(s, h + Len(attr) + 1, NextQuote(s, h + Len(attr) + 1) - 1)

AttrTagEnd(s, h, attr) == IndexOf(s, ">", NextQuote(s, h + Len(attr) + 1) + 1)

\* linkRegex at position i:
\* /<link[^>]*rel=["']stylesheet["'][^>]*href=["']([^"']+)["'][^>]*>/gi
\* Each [^>]* is greedy: the last rel= and the last href= that let the rest
\* match are taken.
LinkMatchAt(s, i) ==
  IF ~MatchCI(s, i, "<link") THEN [e |-> 0]
  ELSE LET stop == RunEnd(s, i + 5)
           H(r) == {h \in (r + 16)..(stop - 1) : AttrAt(s, h, "href=")}
           R == {r \in (i + 5)..(stop - 1) : RelAt(s, r) /\ H(r) # {}}
       IN IF R = {} THEN [e |-> 0]
          ELSE LET h == Max(H(Max(R)))
               IN [e |-> AttrTagEnd(s, h, "href="), ref |-> AttrValue(s, h, "href=")]

\* scriptRegex at position i:
\* /<script[^>]*src=["']([^"']+)["'][^>]*><\/script>/gi
ScriptMatchAt(s, i) ==
  IF ~MatchCI(s, i, "<script") THEN [e |-> 0]
  ELSE LET stop == RunEnd(s, i + 7)
           H == {h \in (i + 7)..(stop - 1) :
                   AttrAt(s, h, "src=") /\ MatchCI(s, AttrTagEnd(s, h, "src="), "></script>")}
       IN IF H = {} THEN [e |-> 0]
          ELSE LET h == Max(H)
               IN [e |-> AttrTagEnd(s, h, "src=") + 9, ref |-> AttrValue(s, h, "src=")]

\* the matches of the while ((match = regex.exec(htmlContent)) !== null) loop
linkRegex(s) == GlobalMatches([i \in 1..Len(s) |-> LinkMatchAt(s, i).e], 1)

scriptRegex(s) == GlobalMatches([i \in 1..Len(s) |-> ScriptMatchAt(s, i).e], 1)

(***************************************************************************)
(* inlineCssInHtml and inlineJsInHtml (zip-processing.ts 150-213).  The    *)
(* matches are taken in the original htmlContent; each replacement is made *)
(* in processedHtml, at the first occurrence of the matched text.          *)
(***************************************************************************)
\* src.startsWith('http://') || src.startsWith('https://') || src.startsWith('//')
IsExternal(src) ==
  StartsWith(src, "http://") \/ StartsWith(src, "https://") \/ StartsWith(src, "//")

\* if (cssFile && files[cssFile])
Resolved(files, file) == file # Undefined /\ Get(files, file) # ""

inlineStyle(href, content) == "<style>\n/* " \o href \o " */\n" \o content \o "\n</style>"

inlineScript(src, content) == "<script>\n// " \o src \o "\n" \o content \o "\n</script>"

RECURSIVE CssLoop(_, _, _, _, _)
CssLoop(processedHtml, htmlContent, ms, k, files) ==
  IF k > Len(ms) THEN processedHtml
  ELSE LET href == LinkMatchAt(htmlContent, ms[k].s).ref
           fullMatch == SubSeq(htmlContent, ms[k].s, ms[k].e)
           cssFile == findFile(Keys(files), href)
       IN CssLoop(IF Resolved(files, cssFile)
                  THEN ReplaceFirst(processedHtml, fullMatch,
                                    inlineStyle(href, Get(files, cssFile)))
                  ELSE processedHtml,
                  htmlContent, ms, k + 1, files)

inlineCssInHtml(htmlContent, files) ==
  CssLoop(htmlContent, htmlContent, linkRegex(htmlContent), 1, files)

RECURSIVE JsLoop(_, _, _, _, _)
JsLoop(processedHtml, htmlContent, ms, k, files) ==
  IF k > Len(ms) THEN processedHtml
  ELSE LET src == ScriptMatchAt(htmlContent, ms[k].s).ref
           fullMatch == SubSeq(htmlContent, ms[k].s, ms[k].e)
           jsFile == findFile(Keys(files), src)
       IN JsLoop(IF ~IsExternal(src) /\ Resolved(files, jsFile)
                 THEN ReplaceFirst(processedHtml, fullMatch,
                                   inlineScript(src, Get(files, jsFile)))
                 ELSE processedHtml,
                 htmlContent, ms, k + 1, files)

inlineJsInHtml(htmlContent, files) ==
  JsLoop(htmlContent, htmlContent, scriptRegex(htmlContent), 1, files)

\* the references for which Object.keys(files).find(...) runs, in one region
CssLookups(htmlContent) ==
  {LinkMatchAt(htmlContent, m.s).ref :
     m \in {linkRegex(htmlContent)[k] : k \in 1..Len(linkRegex(htmlContent))}}

JsLookups(htmlContent) ==
  {r \in {ScriptMatchAt(htmlContent, m.s).ref :
            m \in {scriptRegex(htmlContent)[k] : k \in 1..Len(scriptRegex(htmlContent))}} :
     ~IsExternal(r)}

(***************************************************************************)
(* convertToSingleHtml (zip-processing.ts 52-148) and createBasicHtml      *)
(* (215-261).                                                              *)
(***************************************************************************)
\* Object.keys(files).filter(path => path.endsWith(".html") &&
\*                                   !path.includes("node_modules"))
htmlFiles(files) ==
  SelectSeq(Keys(files), LAMBDA path : EndsWith(path, ".html") /\ ~Includes(path, "node_modules"))

\* path.endsWith("index.html") || path.match(/\/index\.html$/) ||
\* path.toLowerCase().includes("index")
IsIndexPath(path) ==
  EndsWith(path, "index.html") \/ EndsWith(path, "/index.html") \/ IndexOfCI(path, "index", 1) # 0

\* htmlFiles.find(...) || htmlFiles[0]
mainHtmlFileOf(files) ==
  LET h == htmlFiles(files)
      found == FindFirst(h, {i \in 1..Len(h) : IsIndexPath(h[i])})
  IN IF found # Undefined THEN found ELSE IF Len(h) > 0 THEN h[1] ELSE Undefined

headMatch(htmlContent) == TagPairMatch(htmlContent, "head")

bodyMatch(htmlContent) == TagPairMatch(htmlContent, "body")

titleMatch(htmlContent) == TagPairMatch(htmlContent, "title")

\* headRegion as it would be if a missing body pair emptied the head region
headRegionCoupled(htmlContent) ==
  IF headMatch(htmlContent).found /\ bodyMatch(htmlContent).found
  THEN headMatch(htmlContent).group
  ELSE ""

\* headMatch ? headMatch[1] : ""
headRegion(htmlContent) ==
  IF headMatch(htmlContent).found THEN headMatch(htmlContent).group ELSE ""

\* bodyMatch ? bodyMatch[1] : htmlContent
bodyRegion(htmlContent) ==
  IF bodyMatch(htmlContent).found THEN bodyMatch(htmlContent).group ELSE htmlContent

DocumentHeader ==
  "<!DOCTYPE html>\n<html lang=\"en\">\n<head>\n" \o "  <meta charset=\"UTF-8\">\n" \o
  "  <meta name=\"viewport\" content=\"width=device-width, initial-scale=1.0\">\n"

\* the Object.entries(files).forEach of lines 103-110
RECURSIVE RemainingCss(_, _, _, _)
RemainingCss(files, k, headContent, bodyContent) ==
  IF k > Len(files) THEN ""
  ELSE (IF /\ EndsWith(files[k].path, ".css")
           /\ ~Includes(files[k].path, "node_modules")
           /\ ~Includes(headContent, files[k].content)
           /\ ~Includes(bodyContent, files[k].content)
        THEN "/* " \o files[k].path \o " */\n" \o files[k].content \o "\n\n"
        ELSE "")
       \o RemainingCss(files, k + 1, headContent, bodyContent)

\* the Object.entries(files).forEach of lines 132-142
RECURSIVE RemainingJs(_, _, _, _)
RemainingJs(files, k, headContent, bodyContent) ==
  IF k > Len(files) THEN ""
  ELSE (IF /\ EndsWith(files[k].path, ".js")
           /\ ~Includes(files[k].path, "node_modules")
           /\ ~Includes(files[k].path, ".min.")
           /\ ~Includes(headContent, files[k].content)
           /\ ~Includes(bodyContent, files[k].content)
        THEN "// " \o files[k].path \o "\n" \o files[k].content \o "\n\n"
        ELSE "")
       \o RemainingJs(files, k + 1, headContent, bodyContent)

\* lines 88-145: the document before optimization
finalHtml(files, htmlContent, headContent, bodyContent) ==
  DocumentHeader
  \o (IF titleMatch(htmlContent).found
      THEN "  <title>" \o titleMatch(htmlContent).group \o "</title>\n"
      ELSE "  <title>Deployed Project</title>\n")
  \o "  <style>\n" \o RemainingCss(files, 1, headContent, bodyContent) \o "  </style>\n"
  \o StripDocumentTags(headContent) \o "\n"
  \o "</head>\n<body>\n"
  \o StripDocumentTags(bodyContent) \o "\n"
  \o "\n<script>\n" \o RemainingJs(files, 1, headContent, bodyContent) \o "</script>\n"
  \o "</body>\n</html>"

\* the file-item glyph of line 244 (not ASCII in the source), written in ASCII
FileGlyph == "[file]"

RECURSIVE BasicCss(_, _)
BasicCss(files, k) ==
  IF k > Len(files) THEN ""
  ELSE (IF EndsWith(files[k].path, ".css")
        THEN "/* " \o files[k].path \o " */\n" \o files[k].content \o "\n\n"
        ELSE "")
       \o BasicCss(files, k + 1)

\* BasicListing as it would be if it listed file names without directories
RECURSIVE BasicListingNames(_, _)
BasicListingNames(files, k) ==
  IF k > Len(files) THEN ""
  ELSE LET path == files[k].path
           slashes == {i \in 1..Len(path) : Ch(path, i) = "/"}
           name == IF slashes = {} THEN path ELSE SubSeq(path, Max(slashes) + 1, Len(path))
       IN "      <div class=\"file-item\">" \o FileGlyph \o " " \o name \o "</div>\n"
          \o BasicListingNames(files, k + 1)

RECURSIVE BasicListing(_, _)
BasicListing(files, k) ==
  IF k > Len(files) THEN ""
  ELSE "      <div class=\"file-item\">" \o FileGlyph \o " " \o files[k].path \o "</div>\n"
       \o BasicListing(files, k + 1)

RECURSIVE BasicJs(_, _)
BasicJs(files, k) ==
  IF k > Len(files) THEN ""
  ELSE (IF EndsWith(files[k].path, ".js") /\ ~Includes(files[k].path, "node_modules")
        THEN "// " \o files[k].path \o "\n" \o files[k].content \o "\n\n"
        ELSE "")
       \o BasicJs(files, k + 1)

createBasicHtml(files) ==
  optimizeHtml(
    DocumentHeader \o "  <title>Deployed Project</title>\n"
    \o "  <style>\n"
    \o "    body { font-family: Arial, sans-serif; margin: 40px; line-height: 1.6; }\n"
    \o "    .container { max-width: 800px; margin: 0 auto; }\n"
    \o "    .file-list { background: #f5f5f5; padding: 20px; border-radius: 8px; }\n"
    \o "    .file-item { margin: 5px 0; }\n"
    \o BasicCss(files, 1)
    \o "  </style>\n</head>\n<body>\n"
    \o "  <div class=\"container\">\n"
    \o "    <h1>Repository Deployed Successfully!</h1>\n"
    \o "    <p>Your repository has been processed and deployed to Arweave.</p>\n"
    \o "    <div class=\"file-list\">\n"
    \o "      <h3>Repository Contents:</h3>\n"
    \o BasicListing(files, 1)
    \o "    </div>\n"
    \o "  </div>\n\n"
    \o "  <script>\n"
    \o "    console.log('Repository deployed successfully!');\n"
    \o BasicJs(files, 1)
    \o "  </script>\n</body>\n</html>")

\* lines 52-148: the document convertToSingleHtml returns for a bundle
convertToSingleHtml(files) ==
  LET main == mainHtmlFileOf(files)
      htmlContent == Get(files, main)
      head == inlineJsInHtml(inlineCssInHtml(headRegion(htmlContent), files), files)
      body == inlineJsInHtml(inlineCssInHtml(bodyRegion(htmlContent), files), files)
  IN IF main = Undefined THEN createBasicHtml(files)
     ELSE optimizeHtml(finalHtml(files, htmlContent, head, body))

(***************************************************************************)
(* lib/process-zip.ts: identifyProjectType (109-139) and the               *)
(* convertToSingleHtml of that file (45-107).                              *)
(*                                                                         *)
(* JSON.parse, for texts made of objects, strings without escapes,         *)
(* numbers written in digits and the literals true, false and null (the    *)
(* manifests of the model hold nothing else).  A value is a record: t its  *)
(* type, s its text, members the (k, v) pairs of an object.                *)
(***************************************************************************)
JsUndefined == [t |-> "undefined", s |-> "", members |-> <<>>]

Digits == "0123456789"

IsDigitAt(s, i) == i <= Len(s) /\ IndexOf(Digits, SubSeq(s, i, i), 1) # 0

\* first position >= i that holds no JSON white space
SkipWs(s, i) ==
  Min({j \in i..(Len(s) + 1) : j = Len(s) + 1 \/ SubSeq(s, j, j) \notin {" ", "\n", "\t", "\r"}})

SyntaxError == [ok |-> FALSE]

ParseString(s, i) ==
  LET close == IndexOf(s, "\"", i + 1)
  IN IF ~MatchAt(s, i, "\"") \/ close = 0 THEN SyntaxError
     ELSE [ok |-> TRUE, next |-> close + 1,
           val |-> [t |-> "string", s |-> SubSeq(s, i + 1, close - 1), members |-> <<>>]]

ParseNumber(s, i) ==
  LET stop == Min({j \in i..(Len(s) + 1) : ~IsDigitAt(s, j)})
  IN IF stop = i \/ (stop > i + 1 /\ MatchAt(s, i, "0")) THEN SyntaxError
     ELSE [ok |-> TRUE, next |-> stop,
           val |-> [t |-> "number", s |-> SubSeq(s, i, stop - 1), members |-> <<>>]]

ParseLiteral(s, i) ==
  LET words == {w \in {"true", "false", "null"} : MatchAt(s, i, w)}
  IN IF words = {} THEN SyntaxError
     ELSE LET w == CHOOSE v \in words : TRUE
          IN [ok |-> TRUE, next |-> i + Len(w),
              val |-> [t |-> IF w = "null" THEN "null" ELSE "boolean", s |-> w,
                       members |-> <<>>]]

RECURSIVE ParseValue(_, _)
RECURSIVE ParseMembers(_, _, _)
\* the members of an object from position i, after those of acc
ParseMembers(s, i, acc) ==
  LET key == ParseString(s, i)
      colon == SkipWs(s, key.next)
      value == ParseValue(s, SkipWs(s, colon + 1))
      after == SkipWs(s, value.next)
      member == [k |-> key.val.s, v |-> value.val]
  IN IF ~key.ok \/ ~MatchAt(s, colon, ":") THEN SyntaxError
     ELSE IF ~value.ok THEN SyntaxError
     ELSE IF MatchAt(s, after, "}")
     THEN [ok |-> TRUE, next |-> after + 1,
           val |-> [t |-> "object", s |-> "", members |-> Append(acc, member)]]
     ELSE IF MatchAt(s, after, ",")
     THEN ParseMembers(s, SkipWs(s, after + 1), Append(acc, member))
     ELSE SyntaxError

ParseValue(s, i) ==
  IF MatchAt(s, i, "{")
  THEN IF MatchAt(s, SkipWs(s, i + 1), "}")
       THEN [ok |-> TRUE, next |-> SkipWs(s, i + 1) + 1,
             val |-> [t |-> "object", s |-> "", members |-> <<>>]]
       ELSE ParseMembers(s, SkipWs(s, i + 1), <<>>)
  ELSE IF MatchAt(s, i, "\"") THEN ParseString(s, i)
  ELSE IF IsDigitAt(s, i) THEN ParseNumber(s, i)
  ELSE ParseLiteral(s, i)

\* JSON.parse(text): one value and nothing but white space around it
JSONparse(text) ==
  LET value == ParseValue(text, SkipWs(text, 1))
  IN IF value.ok /\ SkipWs(text, value.next) = Len(text) + 1 THEN value ELSE SyntaxError

\* value[name]; the last member of that name wins
GetProperty(value, name) ==
  LET M == {m \in 1..Len(value.members) : value.members[m].k = name}
  IN IF M = {} THEN JsUndefined ELSE value.members[Max(M)].v

\* the value counts as true in a condition
Truthy(value) ==
  \/ value.t = "object"
  \/ value.t = "string" /\ value.s # ""
  \/ value.t = "number" /\ value.s # "0"
  \/ value.t = "boolean" /\ value.s = "true"

\* dependencyTag as it would be if react were tested before next
dependencyTagReactFirst(dependencies) ==
  IF Truthy(GetProperty(dependencies, "react")) THEN "react"
  ELSE IF Truthy(GetProperty(dependencies, "next")) THEN "nextjs"
  ELSE IF Truthy(GetProperty(dependencies, "vue")) THEN "vue"
  ELSE Undefined

\* lines 118-124: the tag the dependencies give, if any
dependencyTag(dependencies) ==
  IF Truthy(GetProperty(dependencies, "next")) THEN "nextjs"
  ELSE IF Truthy(GetProperty(dependencies, "react")) THEN "react"
  ELSE IF Truthy(GetProperty(dependencies, "vue")) THEN "vue"
  ELSE Undefined

\* line 111
packageJsonFileOf(files) ==
  FindFirst(Keys(files), {k \in 1..Len(files) : EndsWith(files[k].path, "package.json")})

\* line 115 throws: JSON.parse a SyntaxError, packageJson.dependencies of
\* null a TypeError; the catch of line 126 logs it
ManifestThrows(files) ==
  /\ packageJsonFileOf(files) # Undefined
  /\ LET packageJson == JSONparse(Get(files, packageJsonFileOf(files)))
     IN ~packageJson.ok \/ packageJson.val.t = "null"

\* lines 113-129: the tag the manifest gives, if any
manifestTag(files) ==
  IF packageJsonFileOf(files) = Undefined \/ ManifestThrows(files) THEN Undefined
  ELSE LET packageJson == JSONparse(Get(files, packageJsonFileOf(files))).val
           dependencies == GetProperty(packageJson, "dependencies")
       IN IF Truthy(dependencies) THEN dependencyTag(dependencies) ELSE Undefined

identifyProjectType(files) ==
  IF manifestTag(files) # Undefined THEN manifestTag(files)
  ELSE IF \E k \in 1..Len(files) : Includes(files[k].path, "next.config") THEN "nextjs"
  ELSE IF \E k \in 1..Len(files) : Includes(files[k].path, "vite.config") THEN "vite"
  ELSE "static"

\* content.match(/<body[^>]*>([\s\S]*)<\/body>/i): the leftmost opening
\* tag, the group the text up to the last closing tag
bodyMatchGreedy(content) ==
  LET Gt(i) == IndexOf(content, ">", i + 5)
      Last(from) == {k \in from..Len(content) : MatchCI(content, k, "</body>")}
      I == {i \in 1..Len(content) :
              MatchCI(content, i, "<body") /\ Gt(i) # 0 /\ Last(Gt(i) + 1) # {}}
  IN IF I = {} THEN [found |-> FALSE]
     ELSE LET i == Min(I)
          IN [found |-> TRUE, group |-> SubSeq(content, Gt(i) + 1, Max(Last(Gt(i) + 1)) - 1)]

\* the forEach of lines 61-65
RECURSIVE EmbeddedCss(_, _)
EmbeddedCss(files, k) ==
  IF k > Len(files) THEN ""
  ELSE (IF EndsWith(files[k].path, ".css")
        THEN "/* " \o files[k].path \o " */\n" \o files[k].content \o "\n\n"
        ELSE "")
       \o EmbeddedCss(files, k + 1)

\* the forEach of lines 97-101
RECURSIVE EmbeddedJs(_, _)
EmbeddedJs(files, k) ==
  IF k > Len(files) THEN ""
  ELSE (IF EndsWith(files[k].path, ".js") /\ ~Includes(files[k].path, "node_modules")
        THEN "// " \o files[k].path \o "\n" \o files[k].content \o "\n\n"
        ELSE "")
       \o EmbeddedJs(files, k + 1)

\* line 73
indexFileOf(files) ==
  FindFirst(Keys(files),
            {k \in 1..Len(files) :
               EndsWith(files[k].path, "index.html") \/ EndsWith(files[k].path, "/index.html")})

\* lines 70-89
mainHtmlContentOf(files) ==
  IF indexFileOf(files) = Undefined THEN "<div id=\"app\"></div>"
  ELSE LET content == Get(files, indexFileOf(files))
           match == bodyMatchGreedy(content)
       IN IF match.found /\ match.group # "" THEN Trim(match.group) ELSE content

\* convertToSingleHtmlSimple as it would be if the tag gated the embedding
\* of scripts
convertToSingleHtmlGated(files, projectType) ==
  optimizeHtmlSimple(
    "<!DOCTYPE html>\n<html lang=\"en\">\n<head>\n"
    \o "  <meta charset=\"UTF-8\">\n"
    \o "  <meta name=\"viewport\" content=\"width=device-width, initial-scale=1.0\">\n"
    \o "  <title>Deployed Project</title>\n"
    \o "  <style>\n" \o EmbeddedCss(files, 1) \o "  </style>\n</head>\n<body>\n"
    \o mainHtmlContentOf(files) \o "\n\n"
    \o "  <script>\n" \o (IF projectType = "static" THEN "" ELSE EmbeddedJs(files, 1))
    \o "  </script>\n</body>\n</html>")

\* lines 45-107; projectType is the local of line 47, which no later line
\* reads
convertToSingleHtmlSimple(files, projectType) ==
  optimizeHtmlSimple(
    "<!DOCTYPE html>\n<html lang=\"en\">\n<head>\n"
    \o "  <meta charset=\"UTF-8\">\n"
    \o "  <meta name=\"viewport\" content=\"width=device-width, initial-scale=1.0\">\n"
    \o "  <title>Deployed Project</title>\n"
    \o "  <style>\n" \o EmbeddedCss(files, 1) \o "  </style>\n</head>\n<body>\n"
    \o mainHtmlContentOf(files) \o "\n\n"
    \o "  <script>\n" \o EmbeddedJs(files, 1)
    \o "  </script>\n</body>\n</html>")

(***************************************************************************)
(* lib/process-github.ts: the addresses fetchGithubRepo (30-83) and        *)
(* fetchWithGithubAPI (85-111) request.                                    *)
(***************************************************************************)
\* encodeURIComponent, for texts of letters, digits, - _ . and the
\* characters escaped here
Escaped(c) ==
  IF c = ":" THEN "%3A"
  ELSE IF c = "/" THEN "%2F"
  ELSE IF c = "?" THEN "%3F"
  ELSE IF c = "=" THEN "%3D"
  ELSE IF c = "&" THEN "%26"
  ELSE IF c = "#" THEN "%23"
  ELSE IF c = " " THEN "%20"
  ELSE IF c = "%" THEN "%25"
  ELSE c

RECURSIVE encodeURIComponent(_)
encodeURIComponent(s) ==
  IF s = "" THEN "" ELSE Escaped(SubSeq(s, 1, 1)) \o encodeURIComponent(SubSeq(s, 2, Len(s)))

RawRelay == "https://api.allorigins.win/raw?url="

ArchiveOf(owner, repo, branch) ==
  "https://github.com/" \o owner \o "/" \o repo \o "/archive/refs/heads/" \o branch \o ".zip"

\* lines 31-43
corsProxies(owner, repo) ==
  << RawRelay
       \o encodeURIComponent("https://api.github.com/repos/" \o owner \o "/" \o repo \o "/zipball"),
     RawRelay \o encodeURIComponent(ArchiveOf(owner, repo, "main")),
     "https://corsproxy.io/?" \o encodeURIComponent(ArchiveOf(owner, repo, "main")),
     RawRelay \o encodeURIComponent(ArchiveOf(owner, repo, "master")) >>

\* line 87
repoInfoUrl(owner, repo) ==
  "https://api.allorigins.win/get?url="
    \o encodeURIComponent("https://api.github.com/repos/" \o owner \o "/" \o repo)

\* lines 96-99; branch is repoInfo.default_branch, Undefined when missing
downloadUrl(owner, repo, branch) ==
  RawRelay \o encodeURIComponent(ArchiveOf(owner, repo, IF branch = Undefined THEN "main" ELSE branch))

(***************************************************************************)
(* lib/process-github.ts: isValidGithubUrl (113-117) and extractRepoInfo   *)
(* (119-138).                                                              *)
(***************************************************************************)
\* [a-zA-Z0-9_.-]+
RepoChars == LowerChars \o UpperChars \o Digits \o "_.-"

IsRepoName(s) == s # "" /\ \A i \in 1..Len(s) : Includes(RepoChars, SubSeq(s, i, i))

\* url.replace(/\/$/, '')
RemoveTrailingSlash(s) == IF EndsWith(s, "/") THEN SubSeq(s, 1, Len(s) - 1) ELSE s

\* RepoPathMatches as it would be without the $ at the end of githubRegex:
\* what follows the name of the repository is not looked at
RepoPathMatchesUnanchored(rest) ==
  LET slash == IndexOf(rest, "/", 1)
  IN /\ slash > 1
     /\ IsRepoName(SubSeq(rest, 1, slash - 1))
     /\ slash < Len(rest)
     /\ IsRepoName(SubSeq(rest, slash + 1, slash + 1))

\* the rest of githubRegex after the host: [a-zA-Z0-9_.-]+\/[a-zA-Z0-9_.-]+\/?$
RepoPathMatches(rest) ==
  LET slash == IndexOf(rest, "/", 1)
      tail == SubSeq(rest, slash + 1, Len(rest))
  IN /\ slash > 1
     /\ IsRepoName(SubSeq(rest, 1, slash - 1))
     /\ IsRepoName(tail) \/ (EndsWith(tail, "/") /\ IsRepoName(SubSeq(tail, 1, Len(tail) - 1)))

\* /^https?:\/\/(www\.)?github\.com\/[a-zA-Z0-9_.-]+\/[a-zA-Z0-9_.-]+\/?$/
githubRegex(s) ==
  \E host \in {"http://github.com/", "https://github.com/", "http://www.github.com/",
                "https://www.github.com/"} :
    StartsWith(s, host) /\ RepoPathMatches(SubSeq(s, Len(host) + 1, Len(s)))

isValidGithubUrl(address) == githubRegex(RemoveTrailingSlash(address))

\* s.split(sep)[0]
BeforeFirst(s, sep) ==
  LET k == IndexOf(s, sep, 1) IN IF k = 0 THEN s ELSE SubSeq(s, 1, k - 1)

\* s.split(sep), sep one character
RECURSIVE Split(_, _)
Split(s, sep) ==
  LET k == IndexOf(s, sep, 1)
  IN IF k = 0 THEN <<s>> ELSE <<SubSeq(s, 1, k - 1)>> \o Split(SubSeq(s, k + 1, Len(s)), sep)

extractRepoInfo(address) ==
  LET cleanUrl == BeforeFirst(BeforeFirst(RemoveTrailingSlash(address), "?"), "#")
      parts == Split(cleanUrl, "/")
  IN IF Len(parts) < 5 THEN [ok |-> FALSE, thrown |-> "Invalid GitHub URL format"]
     ELSE IF parts[4] = "" \/ parts[5] = ""
     THEN [ok |-> FALSE, thrown |-> "Could not extract owner and repository name from URL"]
     ELSE [ok |-> TRUE, owner |-> parts[4], repo |-> parts[5]]

(***************************************************************************)
(* app/api/process-url/route.ts: the test of the url (lines 7-22) and      *)
(* postProcessHtml (139-157).                                              *)
(***************************************************************************)
\* String(value) for a value of the request body
ToText(value) == IF value.t \in {"string", "number", "boolean"} THEN value.s ELSE value.t

SchemeChars == LowerChars \o UpperChars \o Digits \o "+.-"

\* new URL(text) does not throw: a scheme, a colon and, for http and https,
\* a host after the slashes (text without a base URL; spaces around it are
\* dropped)
CanParseUrl(text) ==
  LET s == Trim(text)
      colon == IndexOf(s, ":", 1)
      scheme == SubSeq(s, 1, colon - 1)
      rest == SubSeq(s, colon + 1, Len(s))
      host == {j \in 1..Len(rest) : SubSeq(rest, j, j) \notin {"/", "\\"}}
  IN /\ colon > 1
     /\ Includes(LowerChars \o UpperChars, SubSeq(s, 1, 1))
     /\ \A j \in 1..Len(scheme) : Includes(SchemeChars, SubSeq(scheme, j, j))
     /\ (MatchCI(scheme, 1, "http") /\ Len(scheme) = 4) \/ (MatchCI(scheme, 1, "https") /\ Len(scheme) = 5)
          => host # {}

HintWords == {"preload", "prefetch", "dns-prefetch", "preconnect"}

\* /<link[^>]*rel=["'](?:preload|prefetch|dns-prefetch|preconnect)["'][^>]*>/gi
\* at position i: the match ends at the first ">" after "<link"
HintLinkEnds(s) ==
  [i \in 1..Len(s) |->
    IF ~MatchCI(s, i, "<link") THEN 0
    ELSE LET stop == RunEnd(s, i + 5)
         IN IF /\ stop <= Len(s)
               /\ \E r \in (i + 5)..(stop - 1), w \in HintWords :
                    /\ MatchCI(s, r, "rel=")
                    /\ IsQuote(Ch(s, r + 4))
                    /\ MatchCI(s, r + 5, w)
                    /\ r + 5 + Len(w) < stop
                    /\ IsQuote(Ch(s, r + 5 + Len(w)))
            THEN stop ELSE 0]

\* href=["'][^"']*fonts[^"']*["'][^>]*> at position h
FontHrefAt(s, h) ==
  /\ MatchCI(s, h, "href=")
  /\ h + 5 <= Len(s)
  /\ IsQuote(Ch(s, h + 5))
  /\ NextQuote(s, h + 6) # 0
  /\ IndexOfCI(SubSeq(s, h + 6, NextQuote(s, h + 6) - 1), "fonts", 1) # 0
  /\ IndexOf(s, ">", NextQuote(s, h + 6) + 1) # 0

\* /<link[^>]*href=["'][^"']*fonts[^"']*["'][^>]*>/gi at position i; the
\* first [^>]* is greedy, so the last href= that lets the rest match is taken
FontLinkEnds(s) ==
  [i \in 1..Len(s) |->
    IF ~MatchCI(s, i, "<link") THEN 0
    ELSE LET H == {h \in (i + 5)..(RunEnd(s, i + 5) - 1) : FontHrefAt(s, h)}
         IN IF H = {} THEN 0 ELSE IndexOf(s, ">", NextQuote(s, Max(H) + 6) + 1)]

\* lines 139-157; the third replace (151-154) returns each match as it is
postProcessHtml(text) ==
  LET withoutHints == ReplaceAll(text, HintLinkEnds(text), "")
  IN ReplaceAll(withoutHints, FontLinkEnds(withoutHints), "")

(***************************************************************************)
(* app/page.tsx: the size of a document as the deploy handlers compute and *)
(* print it.  A document is known by the size of its Blob in bytes.        *)
(***************************************************************************)
\* size > 3000, size in KB
LimitKB == 3000

\* new Blob([html]).size / 1024
BytesPerKB == 1024

RECURSIVE ToDecimal(_)
ToDecimal(n) ==
  (IF n >= 10 THEN ToDecimal(n \div 10) ELSE "") \o SubSeq(Digits, (n % 10) + 1, (n % 10) + 1)

\* (bytes / 1024).toFixed(2): the nearest hundredth, halves upwards
toFixed2(bytes) ==
  LET hundredths == (bytes * 100 + BytesPerKB \div 2) \div BytesPerKB
  IN ToDecimal(hundredths \div 100) \o "." \o ToDecimal((hundredths % 100) \div 10)
     \o ToDecimal(hundredths % 10)

\* size > 3000 for size = bytes / 1024
ExceedsLimit(bytes) == bytes > LimitKB * BytesPerKB

SizeExceeded(bytes) ==
  "HTML file size (" \o toFixed2(bytes) \o "KB) exceeds 3MB limit. Please use a smaller project."

(***************************************************************************)
(* Archives.  An entry of a JSZip archive: its path, whether it is a       *)
(* directory marker, and the text its decode yields when it succeeds.      *)
(***************************************************************************)
File(path, content) == [path |-> path, dir |-> FALSE, content |-> content]

Dir(path) == [path |-> path, dir |-> TRUE, content |-> ""]

\* /\.(html|htm|css|js|json|txt|md|xml|svg|ts|tsx|jsx|vue|php)$/i
TextSuffixes ==
  {".html", ".htm", ".css", ".js", ".json", ".txt", ".md", ".xml", ".svg", ".ts", ".tsx",
   ".jsx", ".vue", ".php"}

isTextFile(path) ==
  \E suffix \in TextSuffixes : MatchCI(path, Len(path) - Len(suffix) + 1, suffix)

Page(head, body) == "<html><head>" \o head \o "</head><body>" \o body \o "</body></html>"

RedCss == "body{color:red}"

ExternalScriptTag == "<script src=\"https://cdn.example.com/x.js\"></script>"

ExternalLinkTag == "<link rel=\"stylesheet\" href=\"//cdn/x.css\">"

RepeatedScriptTag(src) == "<script src=\"" \o src \o "\"></script>"

\* a script whose text holds the replacement pattern $& (the idiom that
\* escapes the special characters of a regular expression)
EscapeScript == "t=s.replace(r,'\\$&')"

\* the archives the model is run on
Archives ==
  << \* the end-to-end scenario of the specification, rel unquoted
     << File("index.html", Page("<link rel=stylesheet href=\"s.css\">", "Hi")),
        File("s.css", RedCss) >>,
     \* a stylesheet and a script, both referenced in the form the inliners expect
     << File("index.html",
             Page("<title>T</title><link rel=\"stylesheet\" href=\"s.css\">",
                  "Hi<script src=\"a.js\"></script>")),
        File("s.css", RedCss),
        File("a.js", "go()") >>,
     \* href before rel
     << File("index.html", Page("<link href=\"s.css\" rel=\"stylesheet\">", "Hi")),
        File("s.css", RedCss) >>,
     \* whitespace between <script> and </script>
     << File("index.html", Page("", "Hi<script src=\"a.js\"> </script>")),
        File("a.js", "go()") >>,
     \* a referenced stylesheet that is an empty file
     << File("index.html", Page("<link rel=\"stylesheet\" href=\"s.css\">", "Hi")),
        File("s.css", "") >>,
     \* an external script
     << Dir("img/"),
        File("img/logo.png", "PNG"),
        File("index.html", Page("", "Hi" \o ExternalScriptTag)) >>,
     \* an external (protocol-relative) stylesheet and a bundle file with a
     \* similar path
     << Dir("site/"),
        File("site/index.html", Page(ExternalLinkTag, "Hi")),
        File("site/cdn/x.css", RedCss) >>,
     \* index.html next to a page whose directory contains "index"
     << File("indexes/about.html", Page("", "About")),
        File("index.html", Page("", "Home")) >>,
     \* the match-order example of the specification
     << File("proj/index.html", Page("<link rel=\"stylesheet\" href=\"a/style.css\">", "Hi")),
        File("proj/a/style.css", RedCss),
        File("other/style.css", "p{margin:0}") >>,
     \* a rule-2 candidate next to a rule-1 candidate
     << File("proj/index.html", Page("<link rel=\"stylesheet\" href=\"style.css\">", "Hi")),
        File("other/sub/style.css", "p{margin:0}"),
        File("proj/style.css", RedCss) >>,
     \* no markup
     << File("app.js", "go()"),
        File("app.css", RedCss) >>,
     \* nothing but binary entries and directory markers
     << Dir("assets/"),
        File("assets/logo.png", "PNG"),
        File("assets/font.woff", "WOFF") >>,
     \* two pages, neither named index.html
     << File("about.html", Page("", "About")),
        File("pages/indexes.html", Page("", "List")) >>,
     \* an entry document with a head pair and no body pair
     << File("index.html", "<head><title>T</title></head><p>Hi</p>") >>,
     \* an entry document with a body pair and no head pair
     << File("index.html", "<html><body><p>Hi</p></body></html>") >>,
     \* an entry document with neither pair
     << File("index.html", "<p>Hi</p>") >>,
     \* no markup: notes, data and a page with the suffix .htm
     << File("docs/notes.md", "Notes"),
        File("data/list.json", "{}"),
        File("page.htm", "<p>Hi</p>") >>,
     \* two link tags and two script tags that refer to the same files
     << File("index.html",
             Page("<link rel=\"stylesheet\" href=\"s.css\"><link rel=\"stylesheet\" href=\"./s.css\">",
                  "Hi" \o RepeatedScriptTag("a.js") \o RepeatedScriptTag("a.js"))),
        File("s.css", RedCss),
        File("a.js", "go()") >>,
     \* the same script tag twice, the script one that escapes a text for a
     \* regular expression
     << File("index.html", Page("", RepeatedScriptTag("esc.js") \o RepeatedScriptTag("esc.js"))),
        File("esc.js", EscapeScript) >>,
     \* two scripts that no tag refers to, one of them minified
     << File("index.html", Page("", "Hi")),
        File("vendor/lib.min.js", "lib()"),
        File("app.js", "go()") >>,
     \* a body with a header element
     << File("index.html", Page("", "<header>Top</header><p>Hi</p>")) >> >>

\* how many decodes the environment lets fail in one run
MaxFailures == 2

(***************************************************************************)
(* processZipFile (zip-processing.ts 4-50) as a state machine.             *)
(***************************************************************************)
VARIABLES
  zip,          \* the entries of the loaded archive
  pc,           \* where processZipFile stands
  promises,     \* the entries whose decode was issued (indices into zip)
  settled,      \* those whose decode has settled
  files,        \* the bundle
  warnings,     \* the paths of console.warn("Failed to read file ...")
  mainHtmlFile, \* locals of convertToSingleHtml
  headContent,
  bodyContent,
  lookups,      \* the references looked up in the bundle by the inliners
  result,       \* the document returned
  error         \* the message of the Error thrown

\* state of the resolver run on its own
VARIABLES keys, ref, file, rpc

\* state of the optimizer run on its own
VARIABLES
  variant,      \* the file whose optimizeHtml is run
  input,        \* the text it is given
  optimized,    \* optimizeHtml(input)
  reoptimized,  \* optimizeHtml(optimizeHtml(input))
  opc

\* state of convertToSingleHtml of lib/process-zip.ts
VARIABLES
  bundle,        \* its argument files
  projectType,   \* the local of line 47
  consoleErrors, \* the messages of console.error
  document,      \* the document returned
  ppc

\* state of fetchGithubRepo
VARIABLES
  owner,        \* its arguments
  repo,
  proxyIndex,   \* the position of the for loop in corsProxies
  lastError,
  requests,     \* the fetches made so far, with their outcomes
  zipBlob,      \* the blob returned
  fetchError,   \* the error thrown
  gpc

\* state of the page (app/page.tsx)
VARIABLES
  url,          \* the useState values of lines 20-25; pageError is error
  isLoading,
  pageError,
  deployedUrls,
  fileSize,     \* <<>> for null, else <<size in bytes>>
  selectedFile, \* the name of the file
  handler,      \* the deploy handler that is running or ran last
  html,         \* its local html: <<>> until processing returns, else <<size in bytes>>
  dpc,          \* where it stands
  deployCalls,  \* the documents deployToArweave was called with
  runs          \* how many times a handler was started

\* state of processGithubRepo
VARIABLES
  repoUrl,      \* its argument url
  hpc,          \* where it stands
  thrown,       \* the messages of the errors thrown to its caller
  zipCalls,     \* the files processZipFile was called with
  repoDocument  \* the document returned

\* state of the acquisition of a document by one of the paths of the page
VARIABLES
  acquisition,  \* the path: "html", "mhtml" or "zip" file, "url" or "github"
  original,     \* the text that was uploaded or fetched
  produced,     \* the document the path returns
  fault,        \* the message of the error the path throws
  apc           \* where the path stands

\* state of the POST handler of app/api/process-url/route.ts
VARIABLES
  posted,       \* the url of the request body
  step,         \* where the handler stands
  browser,      \* "none" before puppeteer.launch returns, then "open" or "closed"
  pageHtml,     \* the text page.content() returned
  response      \* the response returned: <<>> or one record

zvars ==
  <<zip, pc, promises, settled, files, warnings, mainHtmlFile, headContent, bodyContent,
    lookups, result, error>>

rvars == <<keys, ref, file, rpc>>

ovars == <<variant, input, optimized, reoptimized, opc>>

pvars == <<bundle, projectType, consoleErrors, document, ppc>>

gvars == <<owner, repo, proxyIndex, lastError, requests, zipBlob, fetchError, gpc>>

dvars ==
  <<url, isLoading, pageError, deployedUrls, fileSize, selectedFile, handler, html, dpc,
    deployCalls, runs>>

hvars == <<repoUrl, hpc, thrown, zipCalls, repoDocument>>

avars == <<acquisition, original, produced, fault, apc>>

bvars == <<posted, step, browser, pageHtml, response>>

vars == <<zvars, rvars, ovars, pvars, gvars, dvars, hvars, avars, bvars>>

\* what the steps of processZipFile leave alone
exceptZip == <<rvars, ovars, pvars, gvars, dvars, hvars, avars, bvars>>

\* what the resolver leaves alone
exceptResolver == <<zvars, ovars, pvars, gvars, dvars, hvars, avars, bvars>>

\* what the optimizer leaves alone
exceptOptimizer == <<zvars, rvars, pvars, gvars, dvars, hvars, avars, bvars>>

\* what convertToSingleHtml of lib/process-zip.ts leaves alone
exceptProject == <<zvars, rvars, ovars, gvars, dvars, hvars, avars, bvars>>

\* what the page leaves alone
exceptPage == <<zvars, rvars, ovars, pvars, gvars, hvars, avars, bvars>>

\* what fetchGithubRepo leaves alone
exceptGithub == <<zvars, rvars, ovars, pvars, dvars, hvars, avars, bvars>>

\* what processGithubRepo and fetchGithubRepo together leave alone
exceptRepo == <<zvars, rvars, ovars, pvars, dvars, avars, bvars>>

\* what the acquisition of a document leaves alone
exceptAcquisition == <<zvars, rvars, ovars, pvars, gvars, dvars, hvars, bvars>>

\* what the POST handler leaves alone
exceptRoute == <<zvars, rvars, ovars, pvars, gvars, dvars, hvars, avars>>

htmlContent == Get(files, mainHtmlFile)

InitZip ==
  /\ zip \in {Archives[a] : a \in 1..Len(Archives)}
  /\ pc = "start"
  /\ promises = {}
  /\ settled = {}
  /\ files = <<>>
  /\ warnings = {}
  /\ mainHtmlFile = Undefined
  /\ headContent = ""
  /\ bodyContent = ""
  /\ lookups = {}
  /\ result = ""
  /\ error = ""

IdleResolver == keys = <<>> /\ ref = "" /\ file = Undefined /\ rpc = "idle"

IdleOptimizer ==
  variant = "" /\ input = "" /\ optimized = "" /\ reoptimized = "" /\ opc = "idle"

IdleProject ==
  /\ bundle = <<>>
  /\ projectType = ""
  /\ consoleErrors = <<>>
  /\ document = ""
  /\ ppc = "idle"

NoBlob == [size |-> 0]

IdleGithub ==
  /\ owner = ""
  /\ repo = ""
  /\ proxyIndex = 1
  /\ lastError = ""
  /\ requests = <<>>
  /\ zipBlob = NoBlob
  /\ fetchError = ""
  /\ gpc = "idle"

Null == ""

\* the page as it is rendered first
IdlePage ==
  /\ url = ""
  /\ isLoading = FALSE
  /\ pageError = Null
  /\ deployedUrls = <<>>
  /\ fileSize = <<>>
  /\ selectedFile = Null
  /\ handler = "none"
  /\ html = <<>>
  /\ dpc = "idle"
  /\ deployCalls = <<>>
  /\ runs = 0

IdleRepo ==
  /\ repoUrl = ""
  /\ hpc = "idle"
  /\ thrown = <<>>
  /\ zipCalls = <<>>
  /\ repoDocument = ""

IdleAcquisition ==
  /\ acquisition = ""
  /\ original = ""
  /\ produced = ""
  /\ fault = ""
  /\ apc = "idle"

IdleRoute ==
  /\ posted = ""
  /\ step = "idle"
  /\ browser = "none"
  /\ pageHtml = ""
  /\ response = <<>>

\* the state of everything but processZipFile, the resolver, the optimizer,
\* convertToSingleHtml of lib/process-zip.ts, fetchGithubRepo and the page
IdleRest == IdleRepo /\ IdleAcquisition /\ IdleRoute

Init ==
  InitZip /\ IdleResolver /\ IdleOptimizer /\ IdleProject /\ IdleGithub /\ IdlePage /\ IdleRest

\* lines 13-33: zip.forEach issues one decode for every admitted entry
Start ==
  /\ pc = "start"
  /\ promises' = {i \in 1..Len(zip) : ~zip[i].dir /\ isTextFile(zip[i].path)}
  /\ pc' = "decoding"
  /\ UNCHANGED <<zip, settled, files, warnings, mainHtmlFile, headContent, bodyContent,
                 lookups, result, error>>
  /\ UNCHANGED exceptZip

\* lines 24-26: a decode fulfils; .then stores the text
DecodeOk(i) ==
  /\ i \in promises \ settled
  /\ files' = Put(files, zip[i].path, zip[i].content)
  /\ settled' = settled \cup {i}
  /\ UNCHANGED <<zip, pc, promises, warnings, mainHtmlFile, headContent, bodyContent,
                 lookups, result, error>>
  /\ UNCHANGED exceptZip

\* DecodeFail as it would be without the .catch of lines 27-29: the
\* rejection reaches Promise.all and processZipFile fails
DecodeFailAborts(i) ==
  /\ i \in promises \ settled
  /\ Cardinality(warnings) < MaxFailures
  /\ warnings' = warnings \cup {zip[i].path}
  /\ settled' = settled \cup {i}
  /\ pc' = "failed"
  /\ error' = "Failed to process repository: decode failed"
  /\ UNCHANGED <<zip, promises, files, mainHtmlFile, headContent, bodyContent, lookups,
                 result>>
  /\ UNCHANGED exceptZip

\* lines 27-29: a decode rejects; .catch logs it
DecodeFail(i) ==
  /\ i \in promises \ settled
  /\ Cardinality(warnings) < MaxFailures
  /\ warnings' = warnings \cup {zip[i].path}
  /\ settled' = settled \cup {i}
  /\ UNCHANGED <<zip, pc, promises, files, mainHtmlFile, headContent, bodyContent,
                 lookups, result, error>>
  /\ UNCHANGED exceptZip

\* Join as it would be without the empty-bundle check of lines 37-39 (the
\* policy of lib/process-zip.ts)
JoinWithoutCheck ==
  /\ pc = "decoding"
  /\ settled = promises
  /\ pc' = "convert"
  /\ UNCHANGED <<zip, promises, settled, files, warnings, mainHtmlFile, headContent,
                 bodyContent, lookups, result, error>>
  /\ UNCHANGED exceptZip

\* Join as it would be without the await of line 35
JoinWithoutAwait ==
  /\ pc = "decoding"
  /\ IF Len(files) = 0
     THEN /\ pc' = "failed"
          /\ error' = "Failed to process repository: No processable files found in the repository"
     ELSE /\ pc' = "convert"
          /\ error' = error
  /\ UNCHANGED <<zip, promises, settled, files, warnings, mainHtmlFile, headContent,
                 bodyContent, lookups, result>>
  /\ UNCHANGED exceptZip

\* lines 35-39 and 43-47: Promise.all resumes once every promise has
\* settled; an empty bundle throws
Join ==
  /\ pc = "decoding"
  /\ settled = promises
  /\ IF Len(files) = 0
     THEN /\ pc' = "failed"
          /\ error' = "Failed to process repository: No processable files found in the repository"
     ELSE /\ pc' = "convert"
          /\ error' = error
  /\ UNCHANGED <<zip, promises, settled, files, warnings, mainHtmlFile, headContent,
                 bodyContent, lookups, result>>
  /\ UNCHANGED exceptZip

\* lines 54-78: the entry document and its two regions; without an entry
\* document, createBasicHtml
Select ==
  /\ pc = "convert"
  /\ mainHtmlFile' = mainHtmlFileOf(files)
  /\ IF mainHtmlFile' = Undefined
     THEN /\ result' = createBasicHtml(files)
          /\ pc' = "done"
          /\ UNCHANGED <<headContent, bodyContent>>
     ELSE /\ headContent' = headRegion(Get(files, mainHtmlFile'))
          /\ bodyContent' = bodyRegion(Get(files, mainHtmlFile'))
          /\ pc' = "inline"
          /\ result' = result
  /\ UNCHANGED <<zip, promises, settled, files, warnings, lookups, error>>
  /\ UNCHANGED exceptZip

\* lines 80-86
Inline ==
  /\ pc = "inline"
  /\ headContent' = inlineJsInHtml(inlineCssInHtml(headContent, files), files)
  /\ bodyContent' = inlineJsInHtml(inlineCssInHtml(bodyContent, files), files)
  /\ lookups' = CssLookups(headContent) \cup CssLookups(bodyContent)
                \cup JsLookups(inlineCssInHtml(headContent, files))
                \cup JsLookups(inlineCssInHtml(bodyContent, files))
  /\ pc' = "assemble"
  /\ UNCHANGED <<zip, promises, settled, files, warnings, mainHtmlFile, result, error>>
  /\ UNCHANGED exceptZip

\* lines 88-147
Assemble ==
  /\ pc = "assemble"
  /\ result' = optimizeHtml(finalHtml(files, htmlContent, headContent, bodyContent))
  /\ pc' = "done"
  /\ UNCHANGED <<zip, promises, settled, files, warnings, mainHtmlFile, headContent,
                 bodyContent, lookups, error>>
  /\ UNCHANGED exceptZip

Next ==
  \/ Start
  \/ \E i \in 1..Len(zip) : DecodeOk(i)
  \/ \E i \in 1..Len(zip) : DecodeFail(i)
  \/ Join
  \/ Select
  \/ Inline
  \/ Assemble

Spec == Init /\ [][Next]_vars

(***************************************************************************)
(* The resolver on its own: any reference of Refs against any bundle whose *)
(* keys are up to MaxKeys distinct paths of KeyPool, in any order.         *)
(***************************************************************************)
KeyPool ==
  {"proj/a/style.css", "other/style.css", "other/sub/style.css", "proj/style.css",
   "lib/astyle.css", "site/cdn/x.css", "lib/my.style.css", "css/style.css"}

Refs ==
  {"a/style.css", "style.css", "./style.css", "//cdn/x.css", "missing.css", "../style.css",
   "/css/style.css"}

MaxKeys == 3

KeyOrders ==
  {k \in UNION {[1..n -> KeyPool] : n \in 0..MaxKeys} :
     \A i, j \in DOMAIN k : i # j => k[i] # k[j]}

IdleZip ==
  /\ zip = <<>>
  /\ pc = "idle"
  /\ promises = {}
  /\ settled = {}
  /\ files = <<>>
  /\ warnings = {}
  /\ mainHtmlFile = Undefined
  /\ headContent = ""
  /\ bodyContent = ""
  /\ lookups = {}
  /\ result = ""
  /\ error = ""

InitResolve ==
  /\ IdleZip
  /\ IdleOptimizer
  /\ IdleProject
  /\ IdleGithub
  /\ IdlePage
  /\ IdleRest
  /\ keys \in KeyOrders
  /\ ref \in Refs
  /\ file = Undefined
  /\ rpc = "call"

\* lines 162-168 (and 197-203)
Resolve ==
  /\ rpc = "call"
  /\ file' = findFile(keys, ref)
  /\ rpc' = "returned"
  /\ UNCHANGED <<keys, ref>>
  /\ UNCHANGED exceptResolver

NextResolve == Resolve

SpecResolve == InitResolve /\ [][NextResolve]_vars

(***************************************************************************)
(* The optimizer on its own: optimizeHtml of either file applied to a      *)
(* text, and applied again to what it returned.  The texts are the         *)
(* concatenations of up to MaxPieces pieces: comment delimiters, whole     *)
(* comments, white space and tag delimiters.                               *)
(***************************************************************************)
Pieces == <<"/", "*", "*/", "/*c*/", "<!--c-->", " ", "\n", ">", "<">>

MaxPieces == 4

RECURSIVE Concat(_)
Concat(choice) == IF choice = <<>> THEN "" ELSE Pieces[Head(choice)] \o Concat(Tail(choice))

Inputs == {Concat(choice) : choice \in UNION {[1..n -> 1..Len(Pieces)] : n \in 0..MaxPieces}}

Variants == {"zip-processing.ts", "process-zip.ts"}

optimizeHtmlOf(lib, text) ==
  IF lib = "zip-processing.ts" THEN optimizeHtml(text) ELSE optimizeHtmlSimple(text)

InitOptimize ==
  /\ IdleZip
  /\ IdleResolver
  /\ IdleProject
  /\ IdleGithub
  /\ IdlePage
  /\ IdleRest
  /\ variant \in Variants
  /\ input \in Inputs
  /\ optimized = ""
  /\ reoptimized = ""
  /\ opc = "call"

Optimize ==
  /\ opc = "call"
  /\ optimized' = optimizeHtmlOf(variant, input)
  /\ opc' = "once"
  /\ UNCHANGED <<variant, input, reoptimized>>
  /\ UNCHANGED exceptOptimizer

Reoptimize ==
  /\ opc = "once"
  /\ reoptimized' = optimizeHtmlOf(variant, optimized)
  /\ opc' = "twice"
  /\ UNCHANGED <<variant, input, optimized>>
  /\ UNCHANGED exceptOptimizer

NextOptimize == Optimize \/ Reoptimize

SpecOptimize == InitOptimize /\ [][NextOptimize]_vars

(***************************************************************************)
(* convertToSingleHtml of lib/process-zip.ts on its own, for the bundles   *)
(* of up to MaxFiles files of ProjectFiles, in any key order.              *)
(***************************************************************************)
RECURSIVE DependencyList(_)
DependencyList(names) ==
  IF names = <<>> THEN ""
  ELSE "\"" \o Head(names) \o "\":\"1.0.0\"" \o (IF Len(names) > 1 THEN "," ELSE "")
       \o DependencyList(Tail(names))

\* the text of a manifest that declares the dependencies names
Manifest(names) == "{\"name\":\"app\",\"dependencies\":{" \o DependencyList(names) \o "}}"

DependencyLists == {<<"react", "next">>, <<"vue", "react">>, <<"vue">>, <<"lodash">>, <<>>}

\* manifests without dependencies: development dependencies only, a
\* truncated text, the text null
BareManifests ==
  {"{\"name\":\"app\",\"devDependencies\":{\"vite\":\"5.0.0\"}}",
   "{\"dependencies\":{\"next\":",
   "null"}

ProjectFiles ==
  {[path |-> "package.json", content |-> text] :
     text \in {Manifest(names) : names \in DependencyLists} \cup BareManifests}
  \cup {[path |-> "next.config.js", content |-> "module.exports={}"],
        [path |-> "vite.config.js", content |-> "export default {}"],
        [path |-> "index.html", content |-> Page("", " <p>Hi</p> ")],
        [path |-> "app.js", content |-> "go()"],
        [path |-> "style.css", content |-> RedCss]}

MaxFiles == 3

ProjectBundles ==
  {b \in UNION {[1..n -> ProjectFiles] : n \in 0..MaxFiles} :
     \A i, j \in DOMAIN b : i # j => b[i].path # b[j].path}

InitProject ==
  /\ IdleZip
  /\ IdleResolver
  /\ IdleOptimizer
  /\ IdleGithub
  /\ IdlePage
  /\ IdleRest
  /\ bundle \in ProjectBundles
  /\ projectType = ""
  /\ consoleErrors = <<>>
  /\ document = ""
  /\ ppc = "classify"

\* line 47
Classify ==
  /\ ppc = "classify"
  /\ projectType' = identifyProjectType(bundle)
  /\ consoleErrors' = IF ManifestThrows(bundle) THEN <<"Error parsing package.json:">>
                      ELSE <<>>
  /\ ppc' = "embed"
  /\ UNCHANGED <<bundle, document>>
  /\ UNCHANGED exceptProject

\* lines 52-106
Embed ==
  /\ ppc = "embed"
  /\ document' = convertToSingleHtmlSimple(bundle, projectType)
  /\ ppc' = "done"
  /\ UNCHANGED <<bundle, projectType, consoleErrors>>
  /\ UNCHANGED exceptProject

NextProject == Classify \/ Embed

SpecProject == InitProject /\ [][NextProject]_vars

(***************************************************************************)
(* fetchGithubRepo (process-github.ts 30-83) on its own.  What a fetch     *)
(* does is the choice of the network: it rejects, it answers with a        *)
(* status that is not ok, it answers ok with an empty body, or it answers  *)
(* ok with a body.                                                         *)
(***************************************************************************)
Owners == {"octo"}

Repos == {"site", "docs"}

RelayOutcomes == {"rejects", "status", "empty", "ok"}

\* repoInfo.default_branch, Undefined when the answer has none
Branches == {"main", "master", "develop", Undefined}

BlobSizes == {0, 2048}

Request(address, via, outcome) == [url |-> address, via |-> via, outcome |-> outcome]

InitGithub ==
  /\ IdleZip
  /\ IdleResolver
  /\ IdleOptimizer
  /\ IdleProject
  /\ IdlePage
  /\ IdleRest
  /\ owner \in Owners
  /\ repo \in Repos
  /\ proxyIndex = 1
  /\ lastError = ""
  /\ requests = <<>>
  /\ zipBlob = NoBlob
  /\ fetchError = ""
  /\ gpc = "relays"

\* TryRelay as it would be without the return of line 64
TryRelayWithoutReturn(outcome) ==
  /\ gpc = "relays"
  /\ proxyIndex <= Len(corsProxies(owner, repo))
  /\ requests' = Append(requests, Request(corsProxies(owner, repo)[proxyIndex], "relay", outcome))
  /\ zipBlob' = IF outcome = "ok" THEN [size |-> 2048] ELSE zipBlob
  /\ lastError' = IF outcome = "rejects" THEN "fetch rejected" ELSE lastError
  /\ proxyIndex' = proxyIndex + 1
  /\ UNCHANGED <<owner, repo, fetchError, gpc>>
  /\ UNCHANGED exceptGithub

\* lines 47-74: one turn of the for loop
TryRelay(outcome) ==
  /\ gpc = "relays"
  /\ proxyIndex <= Len(corsProxies(owner, repo))
  /\ requests' = Append(requests, Request(corsProxies(owner, repo)[proxyIndex], "relay", outcome))
  /\ IF outcome = "ok"
     THEN /\ zipBlob' = [size |-> 2048]
          /\ gpc' = "returned"
          /\ UNCHANGED <<proxyIndex, lastError>>
     ELSE /\ lastError' = IF outcome = "rejects" THEN "fetch rejected" ELSE lastError
          /\ proxyIndex' = proxyIndex + 1
          /\ UNCHANGED <<zipBlob, gpc>>
  /\ UNCHANGED <<owner, repo, fetchError>>
  /\ UNCHANGED exceptGithub

\* FetchWithGithubAPI as it would be if line 78 were missing: after the
\* loop, fetchGithubRepo throws at once
FetchWithGithubAPIUnattempted(info, branch, download, size) ==
  /\ gpc = "relays"
  /\ proxyIndex > Len(corsProxies(owner, repo))
  /\ fetchError' = IF lastError # "" THEN lastError ELSE "All download methods failed"
  /\ gpc' = "thrown"
  /\ UNCHANGED <<owner, repo, proxyIndex, lastError, requests, zipBlob>>
  /\ UNCHANGED exceptGithub

\* lines 76-82 and 85-111: after the loop, fetchWithGithubAPI.  info is
\* the outcome of the request for the repository information, branch the
\* default branch it names, download the outcome of the request for the
\* archive of that branch and size the size of its body.
FetchWithGithubAPI(info, branch, download, size) ==
  /\ gpc = "relays"
  /\ proxyIndex > Len(corsProxies(owner, repo))
  /\ requests' =
       requests \o <<Request(repoInfoUrl(owner, repo), "api", info)>>
       \o (IF info = "ok"
           THEN <<Request(downloadUrl(owner, repo, branch), "api", download)>>
           ELSE <<>>)
  /\ IF info = "ok" /\ download = "ok"
     THEN /\ zipBlob' = [size |-> size]
          /\ gpc' = "returned"
          /\ fetchError' = fetchError
     ELSE /\ fetchError' = IF lastError # "" THEN lastError ELSE "All download methods failed"
          /\ gpc' = "thrown"
          /\ zipBlob' = zipBlob
  /\ UNCHANGED <<owner, repo, proxyIndex, lastError>>
  /\ UNCHANGED exceptGithub

NextGithub ==
  \/ \E outcome \in RelayOutcomes : TryRelay(outcome)
  \/ \E info \in {"rejects", "status", "ok"}, branch \in Branches,
        download \in {"rejects", "status", "ok"}, size \in BlobSizes :
       FetchWithGithubAPI(info, branch, download, size)

SpecGithub == InitGithub /\ [][NextGithub]_vars

(***************************************************************************)
(* processGithubRepo (process-github.ts 6-28): the validation, then        *)
(* fetchGithubRepo as above, then processZipFile.  What processZipFile     *)
(* does with the file is left open: it returns a document or it throws; an *)
(* archive of no bytes cannot be read.                                     *)
(***************************************************************************)
RepoUrls ==
  {"https://github.com/octo/site", "http://www.github.com/octo/docs/",
   "https://github.com/octo/site//", "", "https://github.com/octo",
   "https://github.com/octo/site/tree/main", "https://github.com/octo/site?tab=readme",
   "https://gitlab.com/octo/site", "github.com/octo/site", "https://github.com//site",
   "https://github.com/octo/my site", "ftp://github.com/octo/site"}

InvalidUrl == "Invalid GitHub repository URL"

ProcessingFailed == "Failed to process GitHub repository. Please check the URL and try again."

RepoPage == "<!DOCTYPE html><html lang=\"en\"><head></head><body>Hi</body></html>"

InitRepo ==
  /\ IdleZip
  /\ IdleResolver
  /\ IdleOptimizer
  /\ IdleProject
  /\ IdleGithub
  /\ IdlePage
  /\ IdleAcquisition
  /\ IdleRoute
  /\ repoUrl \in RepoUrls
  /\ hpc = "call"
  /\ thrown = <<>>
  /\ zipCalls = <<>>
  /\ repoDocument = ""

\* lines 7-17: the validation, extractRepoInfo and the call of
\* fetchGithubRepo
Validate ==
  /\ hpc = "call"
  /\ IF ~isValidGithubUrl(repoUrl)
     THEN /\ thrown' = Append(thrown, InvalidUrl)
          /\ hpc' = "thrown"
          /\ UNCHANGED <<owner, repo, gpc>>
     ELSE IF ~extractRepoInfo(repoUrl).ok
     THEN /\ thrown' = Append(thrown, ProcessingFailed)
          /\ hpc' = "thrown"
          /\ UNCHANGED <<owner, repo, gpc>>
     ELSE /\ owner' = extractRepoInfo(repoUrl).owner
          /\ repo' = extractRepoInfo(repoUrl).repo
          /\ gpc' = "relays"
          /\ hpc' = "fetching"
          /\ UNCHANGED thrown
  /\ UNCHANGED <<proxyIndex, lastError, requests, zipBlob, fetchError>>
  /\ UNCHANGED <<repoUrl, zipCalls, repoDocument>>
  /\ UNCHANGED exceptRepo

\* lines 17-23: fetchGithubRepo returned; the blob goes to processZipFile
\* as a file
FetchReturned ==
  /\ hpc = "fetching"
  /\ gpc = "returned"
  /\ zipCalls' = Append(zipCalls, [name |-> repo \o ".zip", size |-> zipBlob.size])
  /\ hpc' = "processing"
  /\ UNCHANGED <<repoUrl, thrown, repoDocument>>
  /\ UNCHANGED gvars
  /\ UNCHANGED exceptRepo

\* lines 17 and 24-27: fetchGithubRepo threw; the catch throws the one
\* message of processGithubRepo
FetchFailed ==
  /\ hpc = "fetching"
  /\ gpc = "thrown"
  /\ thrown' = Append(thrown, ProcessingFailed)
  /\ hpc' = "thrown"
  /\ UNCHANGED <<repoUrl, zipCalls, repoDocument>>
  /\ UNCHANGED gvars
  /\ UNCHANGED exceptRepo

\* lines 23-27: processZipFile settles
ZipProcessed(ok) ==
  /\ hpc = "processing"
  /\ ok => zipCalls[Len(zipCalls)].size > 0
  /\ IF ok
     THEN /\ repoDocument' = RepoPage
          /\ hpc' = "returned"
          /\ UNCHANGED thrown
     ELSE /\ thrown' = Append(thrown, ProcessingFailed)
          /\ hpc' = "thrown"
          /\ UNCHANGED repoDocument
  /\ UNCHANGED <<repoUrl, zipCalls>>
  /\ UNCHANGED gvars
  /\ UNCHANGED exceptRepo

NextRepo ==
  \/ Validate
  \/ \E outcome \in RelayOutcomes : TryRelay(outcome)
  \/ \E info \in {"rejects", "status", "ok"}, branch \in Branches,
        download \in {"rejects", "status", "ok"}, size \in BlobSizes :
       FetchWithGithubAPI(info, branch, download, size)
  \/ FetchReturned
  \/ FetchFailed
  \/ \E ok \in BOOLEAN : ZipProcessed(ok)

SpecRepo == InitRepo /\ [][NextRepo]_vars

(***************************************************************************)
(* The page (app/page.tsx): the three deploy handlers and the two inputs.  *)
(* What the processing functions and deployToArweave do is the choice of   *)
(* the environment: a document of some size or an error, an answer or an   *)
(* error.  A control that is disabled cannot start its handler.            *)
(***************************************************************************)
Urls == {"https://example.com", "https://github.com/octo/site"}

FileNames == {"page.html", "page.mhtml", "site.zip", "photo.png"}

\* the sizes of the documents, in bytes, around the limit of 3000 KB
DocumentBytes == {512, 3071999, 3072000, 3072001, 4194304}

Links == <<"https://arweave.net/tx">>

\* how many handler runs the model follows
MaxRuns == 2

Handlers == {"url", "github", "file"}

\* the messages of the errors the processing step of a handler can throw
ProcessingErrors(h, name) ==
  IF h = "url"
  THEN {"Failed to fetch URL content: Failed to fetch content from all available sources"}
  ELSE IF h = "github"
  THEN {"Invalid GitHub repository URL",
        "Failed to process GitHub repository. Please check the URL and try again."}
  ELSE IF EndsWith(name, ".html") THEN {}
  ELSE IF EndsWith(name, ".mhtml") THEN {"No HTML content found in MHTML file"}
  ELSE IF EndsWith(name, ".zip")
  THEN {"Failed to process repository: No processable files found in the repository"}
  ELSE {"Unsupported file type. Please upload an HTML, MHTML, or ZIP file."}

\* the processing step of the handler can return a document
CanProcess(h, name) ==
  h \in {"url", "github"} \/ \E suffix \in {".html", ".mhtml", ".zip"} : EndsWith(name, suffix)

InitPage ==
  /\ IdleZip
  /\ IdleResolver
  /\ IdleOptimizer
  /\ IdleProject
  /\ IdleGithub
  /\ IdlePage
  /\ IdleRest

\* onChange of the two text inputs (lines 185, 226)
SetUrl(value) ==
  /\ ~isLoading
  /\ url' = value
  /\ UNCHANGED <<isLoading, pageError, deployedUrls, fileSize, selectedFile, handler, html,
                 dpc, deployCalls, runs>>
  /\ UNCHANGED exceptPage

\* lines 100-105
handleFileChange(name) ==
  /\ ~isLoading
  /\ selectedFile' = name
  /\ pageError' = Null
  /\ UNCHANGED <<url, isLoading, deployedUrls, fileSize, handler, html, dpc, deployCalls,
                 runs>>
  /\ UNCHANGED exceptPage

\* lines 28-35, 62-69, 108-115: a handler starts
Begin(h) ==
  /\ ~isLoading
  /\ h = "file" => selectedFile # Null
  /\ runs < MaxRuns
  /\ runs' = runs + 1
  /\ handler' = h
  /\ html' = <<>>
  /\ IF h \in {"url", "github"} /\ url = ""
     THEN /\ pageError' = IF h = "url" THEN "Please enter a URL"
                          ELSE "Please enter a GitHub repository URL"
          /\ UNCHANGED <<isLoading, deployedUrls, dpc>>
     ELSE /\ isLoading' = TRUE
          /\ pageError' = Null
          /\ deployedUrls' = <<>>
          /\ dpc' = "processing"
  /\ UNCHANGED <<url, fileSize, selectedFile, deployCalls>>
  /\ UNCHANGED exceptPage

\* lines 54-58, 92-97, 147-151: the processing step throws
ProcessingFails(message) ==
  /\ dpc = "processing"
  /\ message \in ProcessingErrors(handler, selectedFile)
  /\ pageError' = message
  /\ isLoading' = FALSE
  /\ dpc' = "idle"
  /\ UNCHANGED <<url, deployedUrls, fileSize, selectedFile, handler, html, deployCalls,
                 runs>>
  /\ UNCHANGED exceptPage

\* Processed as it would be without the size check of lines 42-46
ProcessedWithoutCeiling(bytes) ==
  /\ dpc = "processing"
  /\ CanProcess(handler, selectedFile)
  /\ html' = <<bytes>>
  /\ fileSize' = <<bytes>>
  /\ deployCalls' = Append(deployCalls, [bytes |-> bytes])
  /\ dpc' = "deploying"
  /\ UNCHANGED <<pageError, isLoading>>
  /\ UNCHANGED <<url, deployedUrls, selectedFile, handler, runs>>
  /\ UNCHANGED exceptPage

\* lines 38-48, 73-85, 118-141: the processing step returns a document of
\* bytes bytes; the size check, then the call of deployToArweave
Processed(bytes) ==
  /\ dpc = "processing"
  /\ CanProcess(handler, selectedFile)
  /\ html' = <<bytes>>
  /\ fileSize' = <<bytes>>
  /\ IF ExceedsLimit(bytes)
     THEN /\ pageError' = SizeExceeded(bytes)
          /\ isLoading' = FALSE
          /\ dpc' = "idle"
          /\ UNCHANGED deployCalls
     ELSE /\ deployCalls' = Append(deployCalls, [bytes |-> bytes])
          /\ dpc' = "deploying"
          /\ UNCHANGED <<pageError, isLoading>>
  /\ UNCHANGED <<url, deployedUrls, selectedFile, handler, runs>>
  /\ UNCHANGED exceptPage

\* lines 48-58, 85-97, 141-151: deployToArweave settles.  answer is
\* "success", "failure" (success is false) or "throws".
Deployed(answer) ==
  /\ dpc = "deploying"
  /\ IF answer = "success"
     THEN /\ deployedUrls' = Links
          /\ UNCHANGED pageError
     ELSE /\ pageError' = IF answer = "failure" THEN "Deployment failed. Please try again."
                          ELSE "Failed to deploy to Arweave. Please try again."
          /\ UNCHANGED deployedUrls
  /\ isLoading' = FALSE
  /\ dpc' = "idle"
  /\ UNCHANGED <<url, fileSize, selectedFile, handler, html, deployCalls, runs>>
  /\ UNCHANGED exceptPage

NextPage ==
  \/ \E value \in Urls \cup {""} : SetUrl(value)
  \/ \E name \in FileNames : handleFileChange(name)
  \/ \E h \in Handlers : Begin(h)
  \/ \E message \in ProcessingErrors(handler, selectedFile) : ProcessingFails(message)
  \/ \E bytes \in DocumentBytes : Processed(bytes)
  \/ \E answer \in {"success", "failure", "throws"} : Deployed(answer)

SpecPage == InitPage /\ [][NextPage]_vars

(***************************************************************************)
(* The POST handler of app/api/process-url/route.ts (3-137).  Each await   *)
(* of a call of the browser is a step that the browser lets succeed or     *)
(* fail; what page.content() returns is the choice of the browser.         *)
(***************************************************************************)
PostedBodies ==
  {"{\"url\":\"https://example.com\"}", "{\"url\":\"http://localhost:3000/app\"}",
   "{\"url\":\"http://example.org/docs?x=1\"}", "{\"url\":\"https://example.net/\"}",
   "{\"url\":\"example.com\"}", "{\"url\":\"\"}", "{\"url\":7}", "{}", "null", "{\"url\":"}

PageTexts ==
  {"<html><head><link rel=\"preload\" href=\"a.js\"></head><body>Hi</body></html>",
   "<html><head><link href=\"https://fonts.example/css\" rel=\"stylesheet\"></head><body>Hi</body></html>",
   "<html><head></head><body><img src=\"/a.png\"></body></html>"}

\* the awaits of lines 41-111, in their order, then those of 114 and 116
PageSteps ==
  <<"newPage", "setViewport", "setUserAgent", "goto", "waitForTimeout(2000)", "evaluate",
    "waitForTimeout(1000)", "content">>

StepAfter(name) ==
  LET k == CHOOSE j \in 1..Len(PageSteps) : PageSteps[j] = name IN PageSteps[k + 1]

\* the messages of the errors of the browser
BrowserError(name) ==
  IF name = "goto" THEN "Navigation timeout of 30000 ms exceeded"
  ELSE IF name = "launch" THEN "Failed to launch the browser process!"
  ELSE "Protocol error: Target closed"

Failure(status, text) == [status |-> status, success |-> FALSE, error |-> text, html |-> ""]

Success(text) == [status |-> 200, success |-> TRUE, error |-> "", html |-> text]

InitRoute ==
  /\ IdleZip
  /\ IdleResolver
  /\ IdleOptimizer
  /\ IdleProject
  /\ IdleGithub
  /\ IdlePage
  /\ IdleRepo
  /\ IdleAcquisition
  /\ posted \in PostedBodies
  /\ step = "request"
  /\ browser = "none"
  /\ pageHtml = ""
  /\ response = <<>>

\* lines 5-39: the body is read and the url tested; then puppeteer.launch
\* is called
Receive ==
  /\ step = "request"
  /\ LET body == JSONparse(posted)
     IN IF ~body.ok
        THEN /\ response' = <<Failure(500, "Unexpected end of JSON input")>>
             /\ step' = "responded"
        ELSE IF body.val.t = "null"
        THEN /\ response' = <<Failure(500, "Cannot destructure property 'url' of null")>>
             /\ step' = "responded"
        ELSE IF ~Truthy(GetProperty(body.val, "url"))
        THEN /\ response' = <<Failure(400, "URL is required")>>
             /\ step' = "responded"
        ELSE IF ~CanParseUrl(ToText(GetProperty(body.val, "url")))
        THEN /\ response' = <<Failure(400, "Invalid URL format")>>
             /\ step' = "responded"
        ELSE /\ step' = "launch"
             /\ UNCHANGED response
  /\ UNCHANGED <<posted, browser, pageHtml>>
  /\ UNCHANGED exceptRoute

\* lines 27-39 and 126-136: puppeteer.launch settles
Launched(ok) ==
  /\ step = "launch"
  /\ IF ok
     THEN /\ browser' = "open"
          /\ step' = PageSteps[1]
          /\ UNCHANGED response
     ELSE /\ response' = <<Failure(500, BrowserError("launch"))>>
          /\ step' = "responded"
          /\ UNCHANGED browser
  /\ UNCHANGED <<posted, pageHtml>>
  /\ UNCHANGED exceptRoute

\* lines 41-111 and 126-136: one of the awaits before page.content()
\* settles
PageStep(ok) ==
  /\ step \in {PageSteps[k] : k \in 1..(Len(PageSteps) - 1)}
  /\ IF ok
     THEN /\ step' = StepAfter(step)
          /\ UNCHANGED response
     ELSE /\ response' = <<Failure(500, BrowserError(step))>>
          /\ step' = "responded"
  /\ UNCHANGED <<posted, browser, pageHtml>>
  /\ UNCHANGED exceptRoute

\* lines 114-116 and 126-136: page.content() settles; then browser.close()
\* is called
Content(ok, text) ==
  /\ step = "content"
  /\ IF ok
     THEN /\ pageHtml' = text
          /\ step' = "close"
          /\ UNCHANGED response
     ELSE /\ response' = <<Failure(500, BrowserError(step))>>
          /\ step' = "responded"
          /\ UNCHANGED pageHtml
  /\ UNCHANGED <<posted, browser>>
  /\ UNCHANGED exceptRoute

\* lines 116-136: browser.close() settles.  When it rejects, the browser
\* may or may not have gone (left).
Closed(ok, left) ==
  /\ step = "close"
  /\ IF ok
     THEN /\ browser' = "closed"
          /\ response' = <<Success(postProcessHtml(pageHtml))>>
     ELSE /\ browser' = left
          /\ response' = <<Failure(500, BrowserError(step))>>
  /\ step' = "responded"
  /\ UNCHANGED <<posted, pageHtml>>
  /\ UNCHANGED exceptRoute

NextRoute ==
  \/ Receive
  \/ \E ok \in BOOLEAN : Launched(ok)
  \/ \E ok \in BOOLEAN : PageStep(ok)
  \/ \E ok \in BOOLEAN, text \in PageTexts : Content(ok, text)
  \/ \E ok \in BOOLEAN, left \in {"open", "closed"} : Closed(ok, left)

SpecRoute == InitRoute /\ [][NextRoute]_vars

(***************************************************************************)
(* The paths by which app/page.tsx acquires a document: handleFileDeploy   *)
(* (116-130) calls processHtml, processMhtml or processZipFile by the      *)
(* suffix of the file name, handleUrlDeploy calls processUrlContent        *)
(* (lib/html-processor.ts 29-77) and handleGithubDeploy processGithubRepo, *)
(* which hands the downloaded archive to processZipFile.  The archive of   *)
(* this specification holds one entry, index.html, whose text is the       *)
(* original.                                                               *)
(***************************************************************************)
Acquisitions == {"html", "mhtml", "zip", "url", "github"}

Originals ==
  {Page("", "<p class=\"x\">Hi</p>"),
   Page("<meta charset=\"utf-8\">", "<a href='#'>Hi</a>"),
   Page("", "<p>Hi</p>"),
   "<p id=\"a\">Hi</p>",
   "MIME-Version: 1.0\n\n<HTML><body><img src=\"a.png\" /></body></HTML>\n--end",
   Page("<title>T</title>", "<p  title=\"a  b\">Hi</p>\n"),
   Page("", "<input value='say \"hi\"'>"),
   Page("", "<br/>  <p data-a=\"1\" data-b=\"2\">Hi</p>")}

\* lines 41-45: the relays of processUrlContent
UrlProxies ==
  <<"https://api.allorigins.win/raw?url=", "https://cors-anywhere.herokuapp.com/",
    "https://corsproxy.io/?">>

ProxyStep(k) == "proxy " \o ToString(k)

FetchFailure(text) == "Failed to fetch URL content: " \o text

InitAcquire ==
  /\ IdleZip
  /\ IdleResolver
  /\ IdleOptimizer
  /\ IdleProject
  /\ IdleGithub
  /\ IdlePage
  /\ IdleRepo
  /\ IdleRoute
  /\ acquisition \in Acquisitions
  /\ original \in Originals
  /\ produced = ""
  /\ fault = ""
  /\ apc = "call"

\* page.tsx 119-121: an .html file
ProcessHtmlFile ==
  /\ apc = "call"
  /\ acquisition = "html"
  /\ produced' = processHtml(original)
  /\ apc' = "done"
  /\ UNCHANGED <<acquisition, original, fault>>
  /\ UNCHANGED exceptAcquisition

\* page.tsx 122-124: an .mhtml file
ProcessMhtmlFile ==
  /\ apc = "call"
  /\ acquisition = "mhtml"
  /\ LET r == processMhtml(original)
     IN IF r.ok
        THEN /\ produced' = r.html
             /\ apc' = "done"
             /\ UNCHANGED fault
        ELSE /\ fault' = r.thrown
             /\ apc' = "failed"
             /\ UNCHANGED produced
  /\ UNCHANGED <<acquisition, original>>
  /\ UNCHANGED exceptAcquisition

\* page.tsx 125-126 and process-github.ts 21: processZipFile on the
\* uploaded or downloaded archive
ProcessArchive ==
  /\ apc = "call"
  /\ acquisition \in {"zip", "github"}
  /\ produced' = convertToSingleHtml(<<[path |-> "index.html", content |-> original]>>)
  /\ apc' = "done"
  /\ UNCHANGED <<acquisition, original, fault>>
  /\ UNCHANGED exceptAcquisition

\* html-processor.ts 32-39: processUrlWithPuppeteer settles.  It returns the
\* html of the answer of the route, the page after postProcessHtml.
Rendered(ok) ==
  /\ apc = "call"
  /\ acquisition = "url"
  /\ IF ok /\ postProcessHtml(original) # ""
     THEN /\ produced' = processHtml(postProcessHtml(original))
          /\ apc' = "done"
     ELSE /\ apc' = ProxyStep(1)
          /\ UNCHANGED produced
  /\ UNCHANGED <<acquisition, original, fault>>
  /\ UNCHANGED exceptAcquisition

\* html-processor.ts 47-63: the request through one relay settles
Proxied(ok) ==
  /\ \E k \in 1..Len(UrlProxies) :
       /\ apc = ProxyStep(k)
       /\ IF ok
          THEN /\ produced' = processHtml(original)
               /\ apc' = "done"
          ELSE /\ apc' = IF k < Len(UrlProxies) THEN ProxyStep(k + 1) ELSE "direct"
               /\ UNCHANGED produced
  /\ UNCHANGED <<acquisition, original, fault>>
  /\ UNCHANGED exceptAcquisition

\* html-processor.ts 65-76: the direct request settles
Direct(directResponse) ==
  /\ apc = "direct"
  /\ IF directResponse = "ok"
     THEN /\ produced' = processHtml(original)
          /\ apc' = "done"
          /\ UNCHANGED fault
     ELSE /\ fault' = FetchFailure(IF directResponse = "rejects" THEN "Failed to fetch"
                                   ELSE "Failed to fetch content from all available sources")
          /\ apc' = "failed"
          /\ UNCHANGED produced
  /\ UNCHANGED <<acquisition, original>>
  /\ UNCHANGED exceptAcquisition

NextAcquire ==
  \/ ProcessHtmlFile
  \/ ProcessMhtmlFile
  \/ ProcessArchive
  \/ \E ok \in BOOLEAN : Rendered(ok)
  \/ \E ok \in BOOLEAN : Proxied(ok)
  \/ \E directResponse \in {"ok", "not ok", "rejects"} : Direct(directResponse)

SpecAcquire == InitAcquire /\ [][NextAcquire]_vars

(***************************************************************************)
(* Reading a document: its tags, and what a tag refers to.  Used to state  *)
(* the properties below; independent of the expressions of the inliners.   *)
(***************************************************************************)
\* every text from a "<" to the next ">"
Tags(doc) ==
  {SubSeq(doc, i, IndexOf(doc, ">", i)) :
     i \in {j \in 1..Len(doc) : Ch(doc, j) = "<" /\ IndexOf(doc, ">", j) # 0}}

Quotes == {"\"", "'"}

ExternalPrefixes == {"http://", "https://", "//"}

IsStylesheetLink(tag) == MatchCI(tag, 1, "<link") /\ IndexOfCI(tag, "stylesheet", 1) # 0

IsScriptTag(tag) == MatchCI(tag, 1, "<script")

\* the tag is a stylesheet link whose href is p
LinksTo(tag, p) ==
  IsStylesheetLink(tag) /\ \E q \in Quotes : Includes(tag, "href=" \o q \o p \o q)

\* the tag is a script tag whose src is p
LoadsScript(tag, p) ==
  IsScriptTag(tag) /\ \E q \in Quotes : Includes(tag, "src=" \o q \o p \o q)

\* the tag is a stylesheet link or a script tag with an external reference
IsExternalTag(tag) ==
  \E q \in Quotes, x \in ExternalPrefixes :
    \/ IsStylesheetLink(tag) /\ Includes(tag, "href=" \o q \o x)
    \/ IsScriptTag(tag) /\ Includes(tag, "src=" \o q \o x)

\* the document has a <style> block that holds css
HasStyleBlock(doc, css) ==
  \E i \in 1..Len(doc) :
    /\ MatchAt(doc, i, "<style")
    /\ IndexOf(doc, "</style>", i) # 0
    /\ Includes(SubSeq(doc, i, IndexOf(doc, "</style>", i)), css)

Paths(entries) == {entries[k].path : k \in 1..Len(entries)}

Admitted == {zip[i].path : i \in promises}

Joined == pc \in {"convert", "inline", "assemble", "done", "failed"}

(***************************************************************************)
(* Properties.                                                             *)
(***************************************************************************)
\* C1: when the bundle has an entry document, the returned document holds
\* no stylesheet link and no script tag whose reference is a path of the
\* bundle.
InliningComplete ==
  (pc = "done" /\ mainHtmlFile # Undefined) =>
    \A p \in Paths(files), tag \in Tags(result) : ~LinksTo(tag, p) /\ ~LoadsScript(tag, p)

\* C2: for the bundle {index.html with <link rel=stylesheet href="s.css">,
\* s.css = body{color:red}} the returned document has a <style> block with
\* body{color:red} and no stylesheet link tag.
ScenarioBundle ==
  /\ Paths(files) = {"index.html", "s.css"}
  /\ Get(files, "index.html") = Page("<link rel=stylesheet href=\"s.css\">", "Hi")
  /\ Get(files, "s.css") = RedCss

EndToEndScenario ==
  (pc = "done" /\ ScenarioBundle) =>
    /\ HasStyleBlock(result, RedCss)
    /\ \A tag \in Tags(result) : ~IsStylesheetLink(tag)

\* C3: when the bundle holds an HTML file named index.html, at any depth,
\* the entry document is a file named index.html.
IsNamedIndexHtml(path) == path = "index.html" \/ EndsWith(path, "/index.html")

EntryIsIndexHtml ==
  (pc \in {"inline", "assemble", "done"} /\ \E p \in Paths(files) : IsNamedIndexHtml(p)) =>
    IsNamedIndexHtml(mainHtmlFile)

\* C4: the resolved file is a match of the first rule that any key of the
\* bundle matches, whatever the order of the keys.
AnyRule1 == \E k \in 1..Len(keys) : Rule1(keys[k], ref)

AnyRule2 == \E k \in 1..Len(keys) : Rule2(keys[k], ref)

AnyRule3 == \E k \in 1..Len(keys) : Rule3(keys[k], ref)

AnyRule4 == \E k \in 1..Len(keys) : Rule4(keys[k], ref)

RulePriority ==
  rpc = "returned" =>
    /\ AnyRule1 => Rule1(file, ref)
    /\ (~AnyRule1 /\ AnyRule2) => Rule2(file, ref)
    /\ (~AnyRule1 /\ ~AnyRule2 /\ AnyRule3) => Rule3(file, ref)
    /\ (~AnyRule1 /\ ~AnyRule2 /\ ~AnyRule3 /\ AnyRule4) => Rule4(file, ref)

\* C5: with the keys proj/a/style.css and other/style.css, in either order,
\* the reference a/style.css resolves to proj/a/style.css.
MatchOrderExample ==
  (/\ rpc = "returned"
   /\ ref = "a/style.css"
   /\ keys \in {<<"proj/a/style.css", "other/style.css">>,
                <<"other/style.css", "proj/a/style.css">>}) =>
    file = "proj/a/style.css"

MatchOrderExampleReached ==
  /\ rpc = "returned"
  /\ ref = "a/style.css"
  /\ keys = <<"other/style.css", "proj/a/style.css">>
  /\ file = "proj/a/style.css"

\* C6: no external reference is looked up in the bundle, and every stylesheet
\* link and script tag with an external reference is still in its region
\* after inlining.
ExternalNeverResolved ==
  (pc \in {"assemble", "done"} /\ mainHtmlFile # Undefined) =>
    /\ \A r \in lookups : ~IsExternal(r)
    /\ \A tag \in Tags(headRegion(htmlContent)) :
         IsExternalTag(tag) => Includes(headContent, tag)
    /\ \A tag \in Tags(bodyRegion(htmlContent)) :
         IsExternalTag(tag) => Includes(bodyContent, tag)

\* C7: an entry document that holds the tag
\* <script src="https://cdn.example.com/x.js"></script> yields a returned
\* document that holds it unchanged.
ExternalScriptUnchanged ==
  (pc = "done" /\ mainHtmlFile # Undefined /\ Includes(htmlContent, ExternalScriptTag)) =>
    Includes(result, ExternalScriptTag)

\* C8: with a bundle of zero files after every decode has settled,
\* processZipFile throws and returns no document; a document is returned
\* only for a bundle that holds a file.
EmptyBundleFails ==
  /\ (Joined /\ Len(files) = 0) => (pc = "failed" /\ error # "" /\ result = "")
  /\ result # "" => Len(files) > 0

EveryDecodeFailed ==
  /\ pc = "failed"
  /\ Cardinality(promises) = 2
  /\ Admitted = warnings
  /\ result = ""

\* C9: a failed decode does not abort the extraction: once the decodes have
\* settled the bundle holds exactly the admitted entries whose decode did
\* not fail, each with its decoded text, and processZipFile fails only if
\* every admitted entry failed.
FailureIsolation ==
  /\ Paths(files) = {zip[i].path : i \in settled} \ warnings
  /\ Joined =>
       /\ Paths(files) = Admitted \ warnings
       /\ Len(files) = Cardinality(Admitted \ warnings)
       /\ \A i \in promises : zip[i].path \notin warnings => Get(files, zip[i].path) = zip[i].content
  /\ pc = "failed" => Admitted \subseteq warnings

OneDecodeFailed ==
  /\ pc = "done"
  /\ Cardinality(promises) = 3
  /\ Cardinality(warnings) = 1
  /\ Len(files) = 2

\* C10: the empty-bundle check and convertToSingleHtml run only after every
\* issued decode has settled, so the bundle they read holds every entry
\* whose decode succeeded.
FanInBeforeSynthesis ==
  Joined =>
    /\ settled = promises
    /\ \A i \in promises : zip[i].path \notin warnings => HasKey(files, zip[i].path)

DecodedOutOfOrder ==
  /\ pc = "convert"
  /\ Cardinality(promises) = 3
  /\ Len(files) = 3
  /\ files[1].path = zip[Max(promises)].path

\* C11: for a fixed set of (path, content) pairs the returned document is
\* the same whatever order the decodes completed in: it is the document of
\* the same pairs in archive order.
ArchiveOrder ==
  LET kept == SelectSeq(zip, LAMBDA entry : HasKey(files, entry.path))
  IN [k \in 1..Len(kept) |-> [path |-> kept[k].path, content |-> kept[k].content]]

OrderIndependent ==
  pc = "done" => result = convertToSingleHtml(ArchiveOrder)

\* C16: for a bundle that holds a file and no file with the suffix .html,
\* the returned document is the placeholder and holds every path of the
\* bundle.
PlaceholderHeading == "<h1>Repository Deployed Successfully!</h1>"

ListingItem(path) == "<div class=\"file-item\">" \o FileGlyph \o " " \o path \o "</div>"

FirstHtmlPath ==
  FindFirst(Keys(files), {k \in 1..Len(files) : EndsWith(files[k].path, ".html")})

EntryFallbackIsFirst ==
  (/\ pc \in {"inline", "assemble", "done"}
   /\ \A p \in Paths(files) : ~EndsWith(p, "index.html")) =>
    mainHtmlFile = FirstHtmlPath

\* C20 as stated: when the entry document lacks a head pair or lacks a body
\* pair, the body region is the whole document and the head region is
\* empty.
WholeDocumentFallback ==
  (/\ pc = "inline"
   /\ ~headMatch(htmlContent).found \/ ~bodyMatch(htmlContent).found) =>
    /\ bodyContent = htmlContent
    /\ headContent = ""

\* C20, amended: each region falls back on its own.  Without a head pair
\* the head region is empty, without a body pair the body region is the
\* whole document; a pair that is present supplies its region whether or
\* not the other pair is present.
RegionFallback ==
  pc = "inline" =>
    /\ headContent = (IF headMatch(htmlContent).found THEN headMatch(htmlContent).group ELSE "")
    /\ bodyContent = (IF bodyMatch(htmlContent).found THEN bodyMatch(htmlContent).group
                      ELSE htmlContent)

HeadWithoutBody ==
  /\ pc = "inline"
  /\ headMatch(htmlContent).found
  /\ ~bodyMatch(htmlContent).found
  /\ headContent = "<title>T</title>"
  /\ bodyContent = htmlContent

\* C12: optimizing what optimizeHtml returned changes nothing.
Idempotent ==
  opc = "twice" => reoptimized = optimized

\* C13: what optimizeHtml returns is never longer than what it was given.
NeverLonger ==
  /\ opc \in {"once", "twice"} => Len(optimized) <= Len(input)
  /\ opc = "twice" => Len(reoptimized) <= Len(optimized)

TagGapClosed ==
  /\ opc = "once"
  /\ variant = "zip-processing.ts"
  /\ input = "/*c*/>\n<"
  /\ optimized = "><"

\* what a manifest of the bundle declares, read off the texts Manifest writes
ManifestText == IF HasKey(bundle, "package.json") THEN Get(bundle, "package.json") ELSE ""

Declared ==
  UNION {{names[n] : n \in 1..Len(names)} :
           names \in {d \in DependencyLists : Manifest(d) = ManifestText}}

HasPathWith(part) == \E p \in Paths(bundle) : Includes(p, part)

\* the first match in the order dependency next, react, vue, file name
\* next.config, file name vite.config, else static
TagByPriority(nextTag) ==
  IF "next" \in Declared THEN nextTag
  ELSE IF "react" \in Declared THEN "react"
  ELSE IF "vue" \in Declared THEN "vue"
  ELSE IF HasPathWith("next.config") THEN nextTag
  ELSE IF HasPathWith("vite.config") THEN "vite"
  ELSE "static"

\* C17 as stated: identifyProjectType returns a tag of {next, react, vue,
\* vite, static}, the first match in the order dependency next, react, vue,
\* file name next.config, file name vite.config, else static; a manifest
\* that cannot be parsed declares nothing.
ClassificationAsStated ==
  ppc \in {"embed", "done"} =>
    /\ projectType \in {"next", "react", "vue", "vite", "static"}
    /\ projectType = TagByPriority("next")

\* C17, amended: the same with the tag nextjs in the place of next.
Classification ==
  ppc \in {"embed", "done"} =>
    /\ projectType \in {"nextjs", "react", "vue", "vite", "static"}
    /\ projectType = TagByPriority("nextjs")

NextBeatsReact ==
  /\ ppc = "embed"
  /\ ManifestText = Manifest(<<"react", "next">>)
  /\ HasPathWith("vite.config")
  /\ projectType = "nextjs"

\* C18: the document convertToSingleHtml of lib/process-zip.ts returns is
\* the one it returns with any other tag in the place of the tag
\* identifyProjectType computed.
ProjectTypes == {"nextjs", "react", "vue", "vite", "static"}

TagIsAdvisory ==
  ppc = "done" => \A tag \in ProjectTypes : convertToSingleHtmlSimple(bundle, tag) = document

NextProjectEmbedded ==
  /\ ppc = "done"
  /\ projectType = "nextjs"
  /\ Paths(bundle) = {"next.config.js", "app.js", "index.html"}
  /\ Includes(document, "go()")
  /\ Includes(document, "<p>Hi</p>")

\* C15: the relays are requested in the order of the list, each at most
\* once, a relay only after every earlier one rejected, answered with a
\* status that is not ok or answered with an empty body; the request a
\* relay answers with a body is the last request of the call, and the API
\* requests come only after all relays have failed.
RelayRequests == SelectSeq(requests, LAMBDA r : r.via = "relay")

SizeCeiling ==
  [][/\ \A k \in 1..Len(deployCalls') : deployCalls'[k].bytes <= LimitKB * BytesPerKB
     /\ (html = <<>> /\ html' # <<>> /\ html'[1] > LimitKB * BytesPerKB) =>
          /\ pageError' = SizeExceeded(html'[1])
          /\ deployCalls' = deployCalls
          /\ dpc' = "idle"
          /\ ~isLoading']_vars

OneByteOver ==
  /\ dpc = "idle"
  /\ handler = "github"
  /\ html = <<3072001>>
  /\ pageError = "HTML file size (3000.00KB) exceeds 3MB limit. Please use a smaller project."
  /\ deployCalls = <<>>
  /\ ~isLoading

\* the reference without a "./" at its start
WithoutLeadingDotSlash(r) == IF StartsWith(r, "./") THEN SubSeq(r, 3, Len(r)) ELSE r

\* the reference without any "/"
RECURSIVE WithoutSlashes(_)
WithoutSlashes(r) ==
  IF r = "" THEN ""
  ELSE (IF SubSeq(r, 1, 1) = "/" THEN "" ELSE SubSeq(r, 1, 1)) \o WithoutSlashes(SubSeq(r, 2, Len(r)))

\* a key passes the four tests with rule 3 and rule 4 read as stated
MatchAsStated(path, r) ==
  \/ Rule1(path, r)
  \/ Rule2(path, r)
  \/ Includes(path, WithoutLeadingDotSlash(r))
  \/ Includes(path, WithoutSlashes(r))

\* C21: the resolved file is the first key that passes rule 1, rule 2, rule
\* 3 (the key contains the reference with only a leading "./" removed) or
\* rule 4 (the key contains the reference with every "/" removed).
ResolvedAsStated ==
  rpc = "returned" =>
    file = FindFirst(keys, {k \in 1..Len(keys) : MatchAsStated(keys[k], ref)})

\* how many times p occurs in s
Occurrences(s, p) == Cardinality({i \in 1..Len(s) : MatchAt(s, i, p)})

\* the link tags of a region whose reference resolves to the file f
LinkTagsOf(region, f) ==
  {m \in {linkRegex(region)[k] : k \in 1..Len(linkRegex(region))} :
     findFile(Keys(files), LinkMatchAt(region, m.s).ref) = f}

\* the script tags of a region whose reference is not external and
\* resolves to the file f
ScriptTagsOf(region, f) ==
  {m \in {scriptRegex(region)[k] : k \in 1..Len(scriptRegex(region))} :
     /\ ~IsExternal(ScriptMatchAt(region, m.s).ref)
     /\ findFile(Keys(files), ScriptMatchAt(region, m.s).ref) = f}

\* of the tags ms of the text before, which refer to a file of the text
\* content, none is left in the text after, and after holds one block that
\* ends with content and close for each of them
EachReplaced(before, after, ms, content, close) ==
  Cardinality(ms) >= 2 =>
    /\ \A m \in ms : ~Includes(after, SubSeq(before, m.s, m.e))
    /\ Occurrences(after, "\n" \o content \o "\n" \o close) = Cardinality(ms)

\* the regions of the entry document, each before and after inlining
Regions ==
  {[before |-> headRegion(htmlContent), after |-> headContent],
   [before |-> bodyRegion(htmlContent), after |-> bodyContent]}

\* C22: when a region holds two or more tags that refer to the same file of
\* the bundle (a file that is not empty), inlining leaves none of these
\* tags in the region and puts one inline block with the text of the file
\* in the region for each of them.
RepeatedReferences ==
  (pc = "assemble" /\ mainHtmlFile # Undefined) =>
    \A region \in Regions, k \in 1..Len(files) :
      files[k].content # "" =>
        LET styled == inlineCssInHtml(region.before, files)
        IN /\ EachReplaced(region.before, region.after, LinkTagsOf(region.before, files[k].path),
                           files[k].content, "</style>")
           /\ EachReplaced(styled, region.after, ScriptTagsOf(styled, files[k].path),
                           files[k].content, "</script>")

\* the style block and the script block that the assembly appends, read off
\* the returned document: the first <style> element and the last <script>
\* element
AppendedStyles(doc) ==
  LET open == IndexOf(doc, "<style>", 1)
  IN IF open = 0 THEN "" ELSE SubSeq(doc, open, IndexOf(doc, "</style>", open))

AppendedScripts(doc) ==
  LET I == {i \in 1..Len(doc) : MatchAt(doc, i, "<script>")}
  IN IF I = {} THEN "" ELSE SubSeq(doc, Max(I), Len(doc))

\* the conditions of the claim for the file k of the bundle
Appendable(k, suffix) ==
  /\ EndsWith(files[k].path, suffix)
  /\ ~Includes(files[k].path, "node_modules")
  /\ ~Includes(headContent, files[k].content)
  /\ ~Includes(bodyContent, files[k].content)

\* C23: a file of the bundle (one that is not empty) is in the appended
\* style block once if it has the suffix .css, is not inside node_modules
\* and its text is in neither region after inlining, and not at all
\* otherwise; the same for the suffix .js and the appended script block.
\* Nothing else, the name of the file included, keeps a file out.
AppendOfUnreferenced ==
  (pc = "done" /\ mainHtmlFile # Undefined) =>
    \A k \in 1..Len(files) :
      files[k].content # "" =>
        /\ Occurrences(AppendedStyles(result), files[k].content) =
             (IF Appendable(k, ".css") THEN 1 ELSE 0)
        /\ Occurrences(AppendedScripts(result), files[k].content) =
             (IF Appendable(k, ".js") THEN 1 ELSE 0)

\* the characters of the name of an element
NameChars == LowerChars \o UpperChars \o Digits \o "-"

\* the name of the element of a tag, in lower case: the letters, digits and
\* hyphens that follow "<" or "</"
RECURSIVE LowerCase(_)
LowerCase(s) == IF s = "" THEN "" ELSE LowerCh(SubSeq(s, 1, 1)) \o LowerCase(SubSeq(s, 2, Len(s)))

TagName(tag) ==
  LET from == IF MatchAt(tag, 1, "</") THEN 3 ELSE 2
      stop == Min({j \in from..(Len(tag) + 1) :
                     j = Len(tag) + 1 \/ ~Includes(NameChars, SubSeq(tag, j, j))})
  IN LowerCase(SubSeq(tag, from, stop - 1))

IsDocumentTag(tag) == TagName(tag) \in {"html", "head", "body"}

\* C27: every tag of the processed head content and of the processed body
\* content that is not an html, head or body tag (and that the optimizer
\* leaves as it is) is in the returned document.
OnlyDocumentTagsStripped ==
  (pc = "done" /\ mainHtmlFile # Undefined) =>
    \A tag \in Tags(headContent) \cup Tags(bodyContent) :
      (~IsDocumentTag(tag) /\ optimizeHtml(tag) = tag) => Includes(result, tag)

\* C28: the returned document of an entry document holds one title
\* element, with the title of the entry document when it has one and the
\* title Deployed Project otherwise.
TitleElements(doc) == {i \in 1..Len(doc) : MatchCI(doc, i, "<title")}

ExactlyOneTitle ==
  (pc = "done" /\ mainHtmlFile # Undefined) =>
    /\ Cardinality(TitleElements(result)) = 1
    /\ titleMatch(result).found
    /\ titleMatch(result).group =
         (IF titleMatch(htmlContent).found THEN titleMatch(htmlContent).group
          ELSE "Deployed Project")

\* C30: after any sequence of handler runs and file selections, an error
\* message and a list of deployed links that is not empty are never both
\* set.
ErrorExcludesLinks ==
  ~(pageError # Null /\ deployedUrls # <<>>)

\* the text reads http(s)://[www.]github.com/<owner>/<repo>, with or
\* without slashes at its end: after the host, two segments that are not
\* empty and hold no "?", "#" or space, and nothing but slashes after them
GithubHosts ==
  {"http://github.com/", "https://github.com/", "http://www.github.com/",
   "https://www.github.com/"}

IsSegment(s) == s # "" /\ \A c \in {"?", "#", " "} : ~Includes(s, c)

OfTheForm(address) ==
  \E host \in GithubHosts :
    /\ StartsWith(address, host)
    /\ LET segments == Split(SubSeq(address, Len(host) + 1, Len(address)), "/")
       IN /\ Len(segments) >= 2
          /\ IsSegment(segments[1])
          /\ IsSegment(segments[2])
          /\ \A k \in 3..Len(segments) : segments[k] = ""

ApiRequests == SelectSeq(requests, LAMBDA r : r.via = "api")

Exhausted ==
  /\ Len(RelayRequests) = Len(corsProxies(owner, repo))
  /\ \A k \in 1..Len(RelayRequests) :
       /\ RelayRequests[k].url = corsProxies(owner, repo)[k]
       /\ RelayRequests[k].outcome # "ok"
  /\ ApiRequests # <<>>
  /\ ApiRequests[1].url = repoInfoUrl(owner, repo)
  /\ ApiRequests[Len(ApiRequests)].outcome # "ok"

AcquisitionExhaustion ==
  /\ gpc = "thrown" <=> Exhausted
  /\ gpc = "thrown" =>
       /\ hpc \in {"fetching", "thrown"}
       /\ hpc = "thrown" => thrown = <<ProcessingFailed>>
       /\ zipCalls = <<>>
       /\ repoDocument = ""
  /\ Len(thrown) <= 1

EveryMirrorFailed ==
  /\ hpc = "thrown"
  /\ gpc = "thrown"
  /\ Len(RelayRequests) = 4
  /\ Len(ApiRequests) = 2
  /\ thrown = <<ProcessingFailed>>
  /\ zipCalls = <<>>

\* C29: whenever the handler has returned its response after the browser
\* was launched, the browser has been closed.
BrowserReleased ==
  (step = "responded" /\ browser # "none") => browser = "closed"

(***************************************************************************)
(* The quotes of the documents of the paths.                               *)
(***************************************************************************)
\* C24: a finished path has replaced the double quotes of its document if
\* and only if it is the upload of a single file: the document of an .html
\* or .mhtml file holds no double quote, and the document of the URL path
\* and of the archive or GitHub path holds at least the double quotes of
\* the original.
QuotesNormalizedOnlyForFiles ==
  apc = "done" =>
    /\ acquisition \in {"html", "mhtml"} => ~Includes(produced, "\"")
    /\ acquisition \in {"url", "zip", "github"} =>
         Occurrences(produced, "\"") >= Occurrences(original, "\"")


====
